---------------------------- MODULE Spec2Model ----------------------------
(***************************************************************************)
(* A model of the Eisenhower-matrix planner: the focus-session (pomodoro)  *)
(* state machine of src/src/hooks/usePomodoroTimer.ts, the time-accrual    *)
(* effect of src/src/App.tsx, the task store of                            *)
(* src/src/hooks/useTaskStore.ts and the export of src/src/utils/export.ts.*)
(*                                                                         *)
(* Text is a sequence of characters, so that trim() and the character scan *)
(* of sanitizeJson are computed and not assumed: " " is a white-space      *)
(* character and every other element stands for a non-empty run of other   *)
(* characters (one character in the texts given to sanitizeJson).  The     *)
(* JavaScript null and undefined of a text-valued field are the sequences  *)
(* null and undefined, which no text equals.                               *)
(***************************************************************************)
EXTENDS Integers, Sequences, FiniteSets, TLC

VARIABLES
  pomodoro,                     \* PomodoroState of usePomodoroTimer
  tasks,                        \* TaskMap of useTaskStore: id -> Task
  processedPomodoroSessionsRef, \* App.tsx: sessions already applied
  now,                          \* the wall clock read by new Date()
  outcome,                      \* what the last store operation returned
  credited,                     \* history: per task, seconds of completed sessions
  frame,                        \* history: how the current interval began
  focusRun,                     \* history: consecutive completed focus intervals
  completions,                  \* history: focus intervals completed so far
  raw,                          \* sanitizeJson: the input text
  sanitized,                    \* sanitizeJson: the output text, or null
  localStorage,                 \* window.localStorage: the slots of storage.ts
  persistHandle,                \* storage.ts: the handle of the last setTimeout
  timeouts,                     \* the timeouts of scheduleSave still to fire
  renderedTasks,                \* useTaskStore: tasks as the last render saw it
  mounted,                      \* useTaskStore has rendered once
  calls,                        \* store operations called so far
  intervalRef,                  \* usePomodoroTimer: intervalRef.current
  intervals,                    \* the intervals of setInterval not yet cleared
  renderedRunState              \* usePomodoroTimer: runState of the last render

vars == <<pomodoro, tasks, processedPomodoroSessionsRef, now, outcome,
          credited, frame, focusRun, completions, raw, sanitized,
          localStorage, persistHandle, timeouts, renderedTasks, mounted,
          calls, intervalRef, intervals, renderedRunState>>

timerVars == <<pomodoro, processedPomodoroSessionsRef, credited, frame,
               focusRun, completions>>
sanitizeVars == <<raw, sanitized>>
\* What a render, an effect or a timer of the two hooks reads and writes;
\* the specifications of the calls alone leave it as it is.
hostVars == <<localStorage, persistHandle, timeouts, renderedTasks, mounted,
              calls, intervalRef, intervals, renderedRunState>>

\* What localStorage.getItem returns for a key that was never set: null.
NoItem == [kind |-> "none", val |-> 0]

\* Nothing stored, nothing rendered and no timer set.  A slot of
\* localStorage holds a text, given as the value JSON.parse makes of it;
\* writer is history: the handle of the timeout that wrote main, 0 for a
\* text that was there before the page was opened.
InitHost ==
  /\ localStorage = [main |-> NoItem, backup |-> NoItem, writer |-> 0]
  /\ persistHandle = 0
  /\ timeouts = {}
  /\ renderedTasks = <<>>
  /\ mounted = FALSE
  /\ calls = 0
  /\ intervalRef = 0
  /\ intervals = {}
  /\ renderedRunState = "stopped"

-----------------------------------------------------------------------------
(* Bounds of the model.                                                    *)

\* Ticks per configured minute (60 in the code, getDurationSeconds).
SecondsPerMinute == 1
\* Entries the session log and the history keep (200 in the code).
SESSION_LOG_LIMIT == 2
\* Focus intervals that may complete in one behaviour.
MaxCompletions == 3
\* Largest value of the clock.
MaxClock == 1
\* Longest text given to sanitizeJson.
MaxLen == 5

-----------------------------------------------------------------------------
(* Values                                                                  *)

null == <<"null">>
undefined == <<"undefined">>

Max(a, b) == IF a >= b THEN a ELSE b

\* A slice that keeps every element.
SliceLast_Whole(s, n) == s

\* Array.prototype.slice(-n): the last n elements (all of them for n = 0).
SliceLast(s, n) ==
  IF n = 0 \/ Len(s) <= n THEN s ELSE SubSeq(s, Len(s) - n + 1, Len(s))

\* new Date().toISOString() at clock value n.
Iso(n) == <<"T" \o ToString(n)>>

Str(s) == <<s>>
TaskA == Str("A")
TaskB == Str("B")
TimerTasks == {TaskA, TaskB}

-----------------------------------------------------------------------------
(* usePomodoroTimer.ts (the version with sessionSeconds, lines 302-647)    *)

Modes == {"focus", "short_break", "long_break", "idle"}
RunStates == {"running", "paused", "stopped"}
ConfigFields == {"focusMinutes", "shortBreakMinutes", "longBreakMinutes",
                 "longBreakEvery", "autoTransition", "enableLongBreak"}

\* The values the settings form may send for each field.  The durations are
\* in minutes of SecondsPerMinute ticks; the code's defaults are 25, 5 and 15.
\* The form admits longBreakEvery from 1 on (PomodoroBar.tsx line 242), and
\* with 1 every break is a long one.
FieldValues(f) ==
  CASE f = "focusMinutes" -> {1, 2}
    [] f = "shortBreakMinutes" -> {1}
    [] f = "longBreakMinutes" -> {2}
    [] f = "longBreakEvery" -> {1, 2, 4}
    [] f = "autoTransition" -> BOOLEAN
    [] f = "enableLongBreak" -> BOOLEAN

DEFAULT_CONFIG ==
  [focusMinutes |-> 2, shortBreakMinutes |-> 1, longBreakMinutes |-> 2,
   longBreakEvery |-> 4, autoTransition |-> TRUE, enableLongBreak |-> TRUE]

\* Partial<PomodoroConfig>: one field, as each control of the settings form
\* sends it (PomodoroBar.tsx lines 211-264).
Partials ==
  UNION {{[g \in {f} |-> v] : v \in FieldValues(f)} : f \in ConfigFields}

EmptyStats ==
  [completedPerTask |-> [t \in TimerTasks |-> 0],
   history |-> <<>>,
   completedSessions |-> <<>>]

\* A variant that gives every mode the focus duration.
getDurationSeconds_FocusOnly(config, mode) ==
  config.focusMinutes * SecondsPerMinute

getDurationSeconds(config, mode) ==
  IF mode = "focus" THEN config.focusMinutes * SecondsPerMinute
  ELSE IF mode = "short_break" THEN config.shortBreakMinutes * SecondsPerMinute
  ELSE IF mode = "long_break" THEN config.longBreakMinutes * SecondsPerMinute
  ELSE config.focusMinutes * SecondsPerMinute

\* loadState with nothing stored.
loadState ==
  [activeTaskId |-> null,
   mode |-> "idle",
   runState |-> "stopped",
   remainingSeconds |-> getDurationSeconds(DEFAULT_CONFIG, "focus"),
   streak |-> 0,
   config |-> DEFAULT_CONFIG,
   stats |-> EmptyStats,
   sessionSeconds |-> getDurationSeconds(DEFAULT_CONFIG, "focus")]

\* A variant that reads the live config.
SessionDuration_Live(prev) == getDurationSeconds(prev.config, "focus")

\* The session record of a completed focus interval (lines 483-487).
SessionDuration(prev) ==
  IF prev.sessionSeconds # 0 THEN prev.sessionSeconds
  ELSE getDurationSeconds(prev.config, "focus")

\* nextStats of the tick that reaches zero (lines 472-489).
NextStats(prev, nowIso) ==
  LET kept == [completedPerTask |-> prev.stats.completedPerTask,
               history |-> SliceLast(prev.stats.history, SESSION_LOG_LIMIT),
               completedSessions |->
                 SliceLast(prev.stats.completedSessions, SESSION_LOG_LIMIT)]
  IN IF prev.mode = "focus" /\ prev.activeTaskId # null
     THEN [completedPerTask |->
             [kept.completedPerTask EXCEPT ![prev.activeTaskId] = @ + 1],
           history |->
             Append(SliceLast(kept.history, SESSION_LOG_LIMIT - 1), nowIso),
           completedSessions |->
             Append(SliceLast(kept.completedSessions, SESSION_LOG_LIMIT - 1),
                    [taskId |-> prev.activeTaskId,
                     durationSeconds |-> SessionDuration(prev),
                     completedAt |-> nowIso])]
     ELSE kept

\* nextStreak (line 492).
NextStreak(prev) == IF prev.mode = "focus" THEN prev.streak + 1 ELSE prev.streak

\* shouldLongBreak (lines 493-494).
ShouldLongBreak(prev) ==
  /\ prev.config.enableLongBreak
  /\ prev.mode = "focus"
  /\ NextStreak(prev) % prev.config.longBreakEvery = 0

\* A variant that leaves every break for idle.
NextMode_BreakToIdle(prev) ==
  IF prev.mode = "focus"
  THEN IF ShouldLongBreak(prev) THEN "long_break" ELSE "short_break"
  ELSE "idle"

\* nextMode of the tick that reaches zero (lines 495-502).
NextMode(prev) ==
  IF prev.mode = "focus"
  THEN IF ShouldLongBreak(prev) THEN "long_break" ELSE "short_break"
  ELSE IF prev.activeTaskId # null THEN "focus" ELSE "idle"

\* The streak stored by the tick that reaches zero (lines 518 and 529).
StoredStreak(prev, nextMode) ==
  IF nextMode = "idle" THEN 0
  ELSE IF nextMode = "focus" THEN NextStreak(prev) ELSE prev.streak

\* The state update of the interval callback (lines 462-532).
Tick(prev, nowIso) ==
  IF prev.runState # "running" THEN prev
  ELSE
    LET nextRemaining == Max(0, prev.remainingSeconds - 1) IN
    IF nextRemaining > 0 THEN [prev EXCEPT !.remainingSeconds = nextRemaining]
    ELSE
      LET nextStats == NextStats(prev, nowIso)
          nextMode == NextMode(prev)
          shouldContinue == prev.config.autoTransition /\ nextMode # "idle"
      IN IF nextMode = "idle"
         THEN [prev EXCEPT
                 !.mode = "idle",
                 !.runState = "stopped",
                 !.remainingSeconds = getDurationSeconds(prev.config, "focus"),
                 !.stats = nextStats,
                 !.streak = StoredStreak(prev, nextMode),
                 !.sessionSeconds = getDurationSeconds(prev.config, "focus")]
         ELSE [prev EXCEPT
                 !.mode = nextMode,
                 !.runState = IF shouldContinue THEN "running" ELSE "paused",
                 !.remainingSeconds = getDurationSeconds(prev.config, nextMode),
                 !.stats = nextStats,
                 !.streak = StoredStreak(prev, nextMode),
                 !.sessionSeconds = getDurationSeconds(prev.config, nextMode)]

\* A variant that keeps the remaining time of the interval before.
start_KeepingRemaining(prev, taskId) ==
  [prev EXCEPT
     !.activeTaskId = taskId,
     !.mode = "focus",
     !.runState = "running",
     !.sessionSeconds = getDurationSeconds(prev.config, "focus")]

\* start (lines 546-558).
start(prev, taskId) ==
  [prev EXCEPT
     !.activeTaskId = taskId,
     !.mode = "focus",
     !.runState = "running",
     !.remainingSeconds = getDurationSeconds(prev.config, "focus"),
     !.sessionSeconds = getDurationSeconds(prev.config, "focus")]

\* A variant that also rewinds the interval.
pause_Rewinding(prev) ==
  [prev EXCEPT !.runState = "paused", !.remainingSeconds = prev.sessionSeconds]

\* pause (lines 560-562).
pause(prev) == [prev EXCEPT !.runState = "paused"]

\* resume (lines 564-566).
resume(prev) == [prev EXCEPT !.runState = "running"]

\* A variant that also erases the statistics.
reset_ClearingStats(prev) ==
  [prev EXCEPT
     !.runState = "stopped",
     !.mode = "idle",
     !.remainingSeconds = getDurationSeconds(prev.config, "focus"),
     !.streak = 0,
     !.activeTaskId = null,
     !.stats = [completedPerTask |-> [t \in DOMAIN @.completedPerTask |-> 0],
                history |-> <<>>,
                completedSessions |-> <<>>],
     !.sessionSeconds = getDurationSeconds(prev.config, "focus")]

\* A variant that leaves the active task in place.
reset_KeepingTask(prev) ==
  [prev EXCEPT
     !.runState = "stopped",
     !.mode = "idle",
     !.remainingSeconds = getDurationSeconds(prev.config, "focus"),
     !.streak = 0,
     !.sessionSeconds = getDurationSeconds(prev.config, "focus")]

\* reset (lines 568-578).
reset(prev) ==
  [prev EXCEPT
     !.runState = "stopped",
     !.mode = "idle",
     !.remainingSeconds = getDurationSeconds(prev.config, "focus"),
     !.streak = 0,
     !.activeTaskId = null,
     !.sessionSeconds = getDurationSeconds(prev.config, "focus")]

\* A variant that never enters a long break.
SkipMode_ShortOnly(prev) ==
  IF prev.mode = "focus" THEN "short_break"
  ELSE IF prev.activeTaskId # null THEN "focus" ELSE "idle"

\* nextMode of skip (lines 585-592).
SkipMode(prev) ==
  IF prev.mode = "focus"
  THEN IF prev.config.enableLongBreak
          /\ (prev.streak + 1) % prev.config.longBreakEvery = 0
       THEN "long_break" ELSE "short_break"
  ELSE IF prev.activeTaskId # null THEN "focus" ELSE "idle"

\* A variant that leaves sessionSeconds as the interval before had it.
skip_KeepingSession(prev) ==
  IF prev.mode = "idle" THEN prev
  ELSE
    LET nextMode == SkipMode(prev)
        durMode == IF nextMode = "idle" THEN "focus" ELSE nextMode
    IN [prev EXCEPT
          !.mode = nextMode,
          !.runState = IF nextMode = "idle" THEN "stopped"
                       ELSE IF prev.config.autoTransition THEN "running"
                       ELSE "paused",
          !.remainingSeconds = getDurationSeconds(prev.config, durMode)]

\* skip (lines 580-602).
skip(prev) ==
  IF prev.mode = "idle" THEN prev
  ELSE
    LET nextMode == SkipMode(prev)
        durMode == IF nextMode = "idle" THEN "focus" ELSE nextMode
    IN [prev EXCEPT
          !.mode = nextMode,
          !.runState = IF nextMode = "idle" THEN "stopped"
                       ELSE IF prev.config.autoTransition THEN "running"
                       ELSE "paused",
          !.remainingSeconds = getDurationSeconds(prev.config, durMode),
          !.sessionSeconds = getDurationSeconds(prev.config, durMode)]

\* A variant that drops the partial.
MergeConfig_Ignored(config, partial) == config

\* { ...prev.config, ...partial } (line 606).
MergeConfig(config, partial) ==
  [f \in ConfigFields |-> IF f \in DOMAIN partial THEN partial[f] ELSE config[f]]

\* A variant that recomputes the duration of an interval in progress.
UpdatedSessionSeconds_Recomputed(prev, nextConfig) ==
  getDurationSeconds(nextConfig, IF prev.mode = "idle" THEN "focus" ELSE prev.mode)

\* sessionSeconds after updateConfig (lines 608-614).
UpdatedSessionSeconds(prev, nextConfig) ==
  LET sessionMode == IF prev.mode = "idle" THEN "focus" ELSE prev.mode
      sessionActive == prev.mode # "idle" /\ prev.runState # "stopped"
  IN IF sessionActive THEN prev.sessionSeconds
     ELSE getDurationSeconds(nextConfig, sessionMode)

\* updateConfig (lines 604-617).
updateConfig(prev, partial) ==
  LET nextConfig == MergeConfig(prev.config, partial)
      nextRemaining ==
        getDurationSeconds(nextConfig,
                           IF prev.mode = "idle" THEN "focus" ELSE prev.mode)
  IN [prev EXCEPT
        !.config = nextConfig,
        !.remainingSeconds =
          IF prev.runState = "stopped" THEN nextRemaining
          ELSE prev.remainingSeconds,
        !.sessionSeconds = UpdatedSessionSeconds(prev, nextConfig)]

\* clearStats (lines 619-624).
clearStats(prev) == [prev EXCEPT !.stats = EmptyStats]

-----------------------------------------------------------------------------
(* useTaskStore.ts: the task record and addTimeToTask                      *)

Quadrants == {"backlog", "Q1", "Q2", "Q3", "Q4"}

\* finalizeTask (lines 55-83) is defined with the store below; a task of the
\* timer's specification is one a flat import created at clock 0.
TimerTask(id) ==
  [id |-> id, title |-> id, due |-> null, quadrant |-> "backlog",
   done |-> FALSE, createdAt |-> Iso(0), completedAt |-> null,
   timeSpentSeconds |-> 0, contemplationTag |-> "null",
   capturedViaContemplation |-> FALSE]

\* addTimeToTask (lines 481-499).
addTimeToTask(prev, taskId, seconds) ==
  IF seconds <= 0 THEN prev
  ELSE IF taskId \notin DOMAIN prev THEN prev
  ELSE [prev EXCEPT ![taskId].timeSpentSeconds = @ + seconds]

-----------------------------------------------------------------------------
(* App.tsx: the effect that applies completed sessions (lines 383-395)     *)

\* The loop of lines 388-393, from 1-based position i.
RECURSIVE ApplySessions(_, _, _)
ApplySessions(tk, sessions, i) ==
  IF i > Len(sessions) THEN tk
  ELSE ApplySessions(
         IF sessions[i].durationSeconds > 0
         THEN addTimeToTask(tk, sessions[i].taskId, sessions[i].durationSeconds)
         ELSE tk,
         sessions, i + 1)

\* The index the loop starts from (lines 385-388).
FirstUnprocessed(processed, sessions) ==
  IF processed > Len(sessions) THEN 0 ELSE processed

\* The effect: runs after a render in which stats.completedSessions changed.
SessionsEffect(next) ==
  LET sessions == next.stats.completedSessions IN
  /\ tasks' = ApplySessions(
                tasks, sessions,
                FirstUnprocessed(processedPomodoroSessionsRef, sessions) + 1)
  /\ processedPomodoroSessionsRef' = Len(sessions)

-----------------------------------------------------------------------------
(* The timer's specification: the hook's operations, the interval callback *)
(* and the App effect.                                                     *)

\* The tick that takes a focus interval with an active task to zero.
CompletesFocus(prev) ==
  /\ prev.runState = "running"
  /\ prev.remainingSeconds <= 1
  /\ prev.mode = "focus"
  /\ prev.activeTaskId # null

ReachesZero(prev) == prev.runState = "running" /\ prev.remainingSeconds <= 1

\* frame: how the interval in progress began (origin), the duration configured
\* for its mode at that moment (dur) and the ticks it has received; edited
\* tells that the interval that last reached zero was begun by start() and
\* reached zero under a live duration other than the one of its start.
NoFrame == [origin |-> "none", dur |-> 0, ticks |-> 0, edited |-> FALSE]

NewFrame(origin, dur) == [NoFrame EXCEPT !.origin = origin, !.dur = dur]

\* The part of the config the break cadence reads.
CadenceOf(config) ==
  <<config.longBreakEvery, config.enableLongBreak, config.autoTransition>>

InitTimer ==
  /\ pomodoro = loadState
  /\ tasks = [t \in TimerTasks |-> TimerTask(t)]
  /\ processedPomodoroSessionsRef = 0
  /\ now = 0
  /\ outcome = "none"
  /\ credited = [t \in TimerTasks |-> 0]
  /\ frame = NoFrame
  /\ focusRun = 0
  /\ completions = 0
  /\ raw = <<>>
  /\ sanitized = null
  /\ InitHost

\* The interval callback; the interval exists while runState is running
\* (the effect of lines 536-544).
DoTick ==
  /\ pomodoro.runState = "running"
  /\ CompletesFocus(pomodoro) => completions < MaxCompletions
  /\ pomodoro' = Tick(pomodoro, Iso(completions + 1))
  /\ SessionsEffect(pomodoro')
  /\ credited' = IF CompletesFocus(pomodoro)
                 THEN [credited EXCEPT ![pomodoro.activeTaskId] =
                         @ + SessionDuration(pomodoro)]
                 ELSE credited
  /\ completions' = IF CompletesFocus(pomodoro) THEN completions + 1
                    ELSE completions
  /\ frame' = IF ~ReachesZero(pomodoro)
              THEN IF frame.origin = "none" THEN frame
                   ELSE [frame EXCEPT !.ticks = @ + 1]
              ELSE [origin |-> IF pomodoro'.mode = "idle" THEN "none" ELSE "auto",
                    dur |-> IF pomodoro'.mode = "idle" THEN 0
                            ELSE getDurationSeconds(pomodoro.config,
                                                    pomodoro'.mode),
                    ticks |-> 0,
                    edited |->
                      /\ frame.origin = "start"
                      /\ frame.dur # getDurationSeconds(pomodoro.config,
                                                        pomodoro.mode)]
  /\ UNCHANGED <<now, outcome, raw, sanitized>>

DoStart ==
  \E taskId \in TimerTasks :
    /\ pomodoro' = start(pomodoro, taskId)
    /\ frame' = NewFrame("start", getDurationSeconds(pomodoro.config, "focus"))
    /\ UNCHANGED <<tasks, processedPomodoroSessionsRef, now, outcome, credited,
                   completions, raw, sanitized>>

DoPause ==
  /\ pomodoro' = pause(pomodoro)
  /\ UNCHANGED <<tasks, processedPomodoroSessionsRef, now, outcome, credited,
                 frame, completions, raw, sanitized>>

DoResume ==
  /\ pomodoro' = resume(pomodoro)
  /\ UNCHANGED <<tasks, processedPomodoroSessionsRef, now, outcome, credited,
                 frame, completions, raw, sanitized>>

DoReset ==
  /\ pomodoro' = reset(pomodoro)
  /\ frame' = NoFrame
  /\ UNCHANGED <<tasks, processedPomodoroSessionsRef, now, outcome, credited,
                 completions, raw, sanitized>>

DoSkip ==
  /\ pomodoro' = skip(pomodoro)
  /\ frame' = IF pomodoro.mode = "idle" THEN frame
              ELSE IF pomodoro'.mode = "idle" THEN NoFrame
              ELSE NewFrame("skip",
                            getDurationSeconds(pomodoro.config, pomodoro'.mode))
  /\ UNCHANGED <<tasks, processedPomodoroSessionsRef, now, outcome, credited,
                 completions, raw, sanitized>>

DoUpdateConfig ==
  \E partial \in Partials :
    /\ pomodoro' = updateConfig(pomodoro, partial)
    /\ UNCHANGED <<tasks, processedPomodoroSessionsRef, now, outcome, credited,
                   frame, completions, raw, sanitized>>

DoClearStats ==
  /\ pomodoro' = clearStats(pomodoro)
  /\ SessionsEffect(pomodoro')
  /\ UNCHANGED <<now, outcome, credited, frame, completions, raw,
                 sanitized>>

\* The actions above leave focusRun to the specification: it is read by no
\* action, and only the claims about the break cadence need it.
NextTimer ==
  \/ DoTick /\ UNCHANGED <<focusRun, hostVars>>
  \/ DoStart /\ UNCHANGED <<focusRun, hostVars>>
  \/ DoPause /\ UNCHANGED <<focusRun, hostVars>>
  \/ DoResume /\ UNCHANGED <<focusRun, hostVars>>
  \/ DoReset /\ UNCHANGED <<focusRun, hostVars>>
  \/ DoSkip /\ UNCHANGED <<focusRun, hostVars>>
  \/ DoUpdateConfig /\ UNCHANGED <<focusRun, hostVars>>
  \/ DoClearStats /\ UNCHANGED <<focusRun, hostVars>>

Spec == InitTimer /\ [][NextTimer]_vars

\* The same steps, counting the consecutive focus intervals that reached
\* zero since the last start, reset, skip, return to idle or change of the
\* cadence settings.
NextCadence ==
  \/ /\ DoTick
     /\ focusRun' = IF ~ReachesZero(pomodoro) THEN focusRun
                    ELSE IF pomodoro.mode = "focus" THEN focusRun + 1
                    ELSE IF pomodoro'.mode = "idle" THEN 0 ELSE focusRun
     /\ UNCHANGED hostVars
  \/ DoStart /\ focusRun' = 0 /\ UNCHANGED hostVars
  \/ DoPause /\ UNCHANGED <<focusRun, hostVars>>
  \/ DoResume /\ UNCHANGED <<focusRun, hostVars>>
  \/ DoReset /\ focusRun' = 0 /\ UNCHANGED hostVars
  \/ DoSkip /\ focusRun' = 0 /\ UNCHANGED hostVars
  \/ /\ DoUpdateConfig
     /\ focusRun' = IF CadenceOf(pomodoro'.config) = CadenceOf(pomodoro.config)
                    THEN focusRun ELSE 0
     /\ UNCHANGED hostVars
  \/ DoClearStats /\ UNCHANGED <<focusRun, hostVars>>

SpecCadence == InitTimer /\ [][NextCadence]_vars

-----------------------------------------------------------------------------
(* Claims about the timer, checked under Spec (C2 under SpecCadence).       *)

IsBreak(mode) == mode \in {"short_break", "long_break"}

\* A log after one entry was appended to it under the cap.
Appended(log, entry) ==
  Append(IF Len(log) < SESSION_LOG_LIMIT THEN log ELSE Tail(log), entry)

LastOf(log) == log[Len(log)]

\* The step is the tick that completes a focus interval for a task.
FocusCompletion == completions' = completions + 1

C3_SessionsAppliedOnce ==
  \A t \in TimerTasks : tasks[t].timeSpentSeconds = credited[t]

C11_StreakCountsFocusCompletions ==
  (ReachesZero(pomodoro) /\ pomodoro.mode = "focus") =>
    Tick(pomodoro, Iso(completions + 1)).streak = pomodoro.streak + 1

\* The duration the config gives a mode, in ticks.
ConfiguredSeconds(config, mode) ==
  SecondsPerMinute *
    (CASE mode = "focus" -> config.focusMinutes
       [] mode = "short_break" -> config.shortBreakMinutes
       [] mode = "long_break" -> config.longBreakMinutes)

\* The state after the tick that is due now.
AfterTick == Tick(pomodoro, Iso(completions + 1))

\* C12: the tick that takes a running interval to zero and enters a mode
\* other than idle enters it running when autoTransition is set and paused
\* otherwise, with remainingSeconds = sessionSeconds = the duration the
\* config gives the new mode at that moment.
C12_NextIntervalEntered ==
  (ReachesZero(pomodoro) /\ AfterTick.mode # "idle") =>
    /\ AfterTick.runState =
         IF pomodoro.config.autoTransition THEN "running" ELSE "paused"
    /\ AfterTick.remainingSeconds =
         ConfiguredSeconds(pomodoro.config, AfterTick.mode)
    /\ AfterTick.sessionSeconds = AfterTick.remainingSeconds
    /\ AfterTick.config = pomodoro.config

\* A focus interval has reached zero with autoTransition off: the machine
\* waits paused at the start of a long break whose duration differs from
\* the focus duration.
C12_Witness ==
  /\ frame.origin = "auto"
  /\ frame.ticks = 0
  /\ pomodoro.mode = "long_break"
  /\ pomodoro.runState = "paused"
  /\ ~pomodoro.config.autoTransition
  /\ pomodoro.config.focusMinutes # pomodoro.config.longBreakMinutes
  /\ pomodoro.remainingSeconds = ConfiguredSeconds(pomodoro.config, "long_break")
  /\ pomodoro.sessionSeconds = pomodoro.remainingSeconds

StateFields == {"activeTaskId", "mode", "runState", "remainingSeconds",
                "streak", "config", "stats", "sessionSeconds"}

\* next differs from prev in no field outside changed.
SameBut(prev, next, changed) ==
  /\ DOMAIN next = StateFields
  /\ \A f \in StateFields \ changed : next[f] = prev[f]

\* C14: reset() from any state gives activeTaskId null, mode idle, runState
\* stopped, streak 0 and remainingSeconds = sessionSeconds = the focus
\* duration of the current config, and leaves stats and config as they were.
C14_Reset ==
  LET next == reset(pomodoro)
  IN /\ next.activeTaskId = null
     /\ next.mode = "idle"
     /\ next.runState = "stopped"
     /\ next.streak = 0
     /\ next.remainingSeconds = ConfiguredSeconds(pomodoro.config, "focus")
     /\ next.sessionSeconds = next.remainingSeconds
     /\ next.stats = pomodoro.stats
     /\ next.config = pomodoro.config

\* The machine was reset after a focus interval completed and the focus
\* duration was changed: the session is still in the statistics.
C14_Witness ==
  /\ pomodoro.mode = "idle"
  /\ pomodoro.runState = "stopped"
  /\ pomodoro.activeTaskId = null
  /\ frame = NoFrame
  /\ Len(pomodoro.stats.completedSessions) >= 1
  /\ pomodoro.config.focusMinutes # DEFAULT_CONFIG.focusMinutes
  /\ pomodoro.remainingSeconds = ConfiguredSeconds(pomodoro.config, "focus")

\* The state a tick would leave if the interval in progress were running
\* and at its last second.
AfterZeroReachingTick ==
  Tick([pomodoro EXCEPT !.runState = "running", !.remainingSeconds = 1],
       Iso(completions + 1))

\* C15: skip() in a mode other than idle gives the mode and the run state
\* of the zero-reaching tick and leaves streak and stats as they were; in
\* idle mode it changes nothing.
C15_SkipFollowsTick ==
  LET next == skip(pomodoro)
  IN IF pomodoro.mode = "idle" THEN next = pomodoro
     ELSE /\ next.mode = AfterZeroReachingTick.mode
          /\ next.runState = AfterZeroReachingTick.runState
          /\ next.streak = pomodoro.streak
          /\ next.stats = pomodoro.stats

\* A focus interval was skipped into a long break before any focus interval
\* completed: the statistics are empty.
C15_Witness ==
  /\ frame.origin = "skip"
  /\ pomodoro.mode = "long_break"
  /\ pomodoro.activeTaskId # null
  /\ completions = 0
  /\ pomodoro.stats = EmptyStats
  /\ pomodoro.streak = 0

\* C16: updateConfig(partial) merges partial into config; stopped and idle,
\* it sets remainingSeconds and sessionSeconds to the focus duration of the
\* new config; with an interval in progress (mode focus or a break, running
\* or paused) it leaves both as they were, and the interval the next
\* zero-reaching tick enters has the duration of the new config.
C16_UpdateConfig ==
  \A partial \in Partials :
    LET next == updateConfig(pomodoro, partial)
        after == Tick([next EXCEPT !.runState = "running",
                                   !.remainingSeconds = 1],
                      Iso(completions + 1))
    IN /\ \A f \in ConfigFields :
            next.config[f] =
              IF f \in DOMAIN partial THEN partial[f] ELSE pomodoro.config[f]
       /\ (pomodoro.runState = "stopped" /\ pomodoro.mode = "idle") =>
            /\ next.remainingSeconds = ConfiguredSeconds(next.config, "focus")
            /\ next.sessionSeconds = next.remainingSeconds
       /\ (pomodoro.mode # "idle" /\ pomodoro.runState # "stopped") =>
            /\ next.remainingSeconds = pomodoro.remainingSeconds
            /\ next.sessionSeconds = pomodoro.sessionSeconds
            /\ after.mode # "idle" =>
                 after.remainingSeconds =
                   ConfiguredSeconds(next.config, after.mode)

\* The focus duration was changed during a focus interval begun by start()
\* that has received a tick: the interval keeps the duration and the
\* remaining time it had.
C16_Witness ==
  /\ frame.origin = "start"
  /\ frame.ticks = 1
  /\ pomodoro.mode = "focus"
  /\ pomodoro.runState = "running"
  /\ pomodoro.sessionSeconds = frame.dur
  /\ pomodoro.remainingSeconds = frame.dur - 1
  /\ ConfiguredSeconds(pomodoro.config, "focus") # frame.dur

\* C17: resume() without an active task changes nothing; with one it sets
\* runState to running and changes nothing else.
C17_ResumeNeedsTask ==
  LET next == resume(pomodoro)
  IN IF pomodoro.activeTaskId = null THEN next = pomodoro
     ELSE /\ next.runState = "running"
          /\ SameBut(pomodoro, next, {"runState"})

\* C18: pause() on a running machine sets runState to paused and leaves
\* every other field as it was; a tick on a machine that is not running
\* changes no field.
C18_PauseFreezes ==
  /\ pomodoro.runState = "running" =>
       LET next == pause(pomodoro)
       IN /\ next.runState = "paused"
          /\ SameBut(pomodoro, next, {"runState"})
  /\ pomodoro.runState # "running" => AfterTick = pomodoro

\* A focus interval begun by start() was paused after a tick, with time
\* left on it.
C18_Witness ==
  /\ pomodoro.runState = "paused"
  /\ pomodoro.mode = "focus"
  /\ frame.origin = "start"
  /\ frame.ticks >= 1
  /\ pomodoro.remainingSeconds = pomodoro.sessionSeconds - frame.ticks
  /\ pomodoro.remainingSeconds >= 1

\* C19: start(taskId) gives activeTaskId = taskId, mode focus, runState
\* running and remainingSeconds = sessionSeconds = the focus duration of the
\* current config, and leaves config, stats and streak as they were.
C19_Start ==
  \A taskId \in TimerTasks :
    LET next == start(pomodoro, taskId)
    IN /\ next.activeTaskId = taskId
       /\ next.mode = "focus"
       /\ next.runState = "running"
       /\ next.remainingSeconds = ConfiguredSeconds(pomodoro.config, "focus")
       /\ next.sessionSeconds = next.remainingSeconds
       /\ SameBut(pomodoro, next,
                  {"activeTaskId", "mode", "runState", "remainingSeconds",
                   "sessionSeconds"})

\* start() was called for another task after a focus interval of the first
\* one completed and the focus duration was changed.
C19_Witness ==
  /\ frame.origin = "start"
  /\ frame.ticks = 0
  /\ pomodoro.mode = "focus"
  /\ pomodoro.runState = "running"
  /\ Len(pomodoro.stats.completedSessions) >= 1
  /\ LastOf(pomodoro.stats.completedSessions).taskId # pomodoro.activeTaskId
  /\ pomodoro.config.focusMinutes # DEFAULT_CONFIG.focusMinutes
  /\ pomodoro.remainingSeconds = ConfiguredSeconds(pomodoro.config, "focus")
  /\ pomodoro.sessionSeconds = pomodoro.remainingSeconds

-----------------------------------------------------------------------------
(* The settings form and updateConfig over JavaScript numbers.  A number   *)
(* is a record: a finite one carries its value, and NaN and Infinity are   *)
(* the two that are not finite.  The machine stays where loadState leaves  *)
(* it (idle and stopped); only the settings change.                        *)

Finite(n) == [kind |-> "finite", val |-> n]
NaN == [kind |-> "NaN", val |-> 0]
Infinity == [kind |-> "Infinity", val |-> 0]

IsFinite(x) == x.kind = "finite"

\* x * k for a positive integer k: NaN and Infinity stay what they are.
JsTimes(x, k) == IF IsFinite(x) THEN Finite(x.val * k) ELSE x

\* x || y: a number is falsy when it is 0 or NaN.
JsOr(x, y) == IF x = Finite(0) \/ x = NaN THEN y ELSE x

NumericFields == {"focusMinutes", "shortBreakMinutes", "longBreakMinutes",
                  "longBreakEvery"}

\* The texts an input of the form may hold, and Number() of each: the empty
\* text is 0, a text that is no number is NaN, and a numeral beyond the
\* range of a double is Infinity.
FormTexts == {"", "1", "2", "abc", "1e999"}

Number(text) ==
  CASE text = "" -> Finite(0)
    [] text = "1" -> Finite(1)
    [] text = "2" -> Finite(2)
    [] text = "abc" -> NaN
    [] text = "1e999" -> Infinity

\* getDurationSeconds (lines 421-426) over JavaScript numbers.
JsGetDurationSeconds(config, mode) ==
  IF mode = "focus" THEN JsTimes(config.focusMinutes, SecondsPerMinute)
  ELSE IF mode = "short_break"
  THEN JsTimes(config.shortBreakMinutes, SecondsPerMinute)
  ELSE IF mode = "long_break"
  THEN JsTimes(config.longBreakMinutes, SecondsPerMinute)
  ELSE JsTimes(config.focusMinutes, SecondsPerMinute)

\* updateConfig (lines 604-617) over JavaScript numbers.
JsUpdateConfig(prev, partial) ==
  LET nextConfig == MergeConfig(prev.config, partial)
      sessionMode == IF prev.mode = "idle" THEN "focus" ELSE prev.mode
      nextRemaining == JsGetDurationSeconds(nextConfig, sessionMode)
      sessionActive == prev.mode # "idle" /\ prev.runState # "stopped"
  IN [prev EXCEPT
        !.config = nextConfig,
        !.remainingSeconds =
          IF prev.runState = "stopped" THEN nextRemaining
          ELSE prev.remainingSeconds,
        !.sessionSeconds =
          IF sessionActive THEN prev.sessionSeconds
          ELSE JsGetDurationSeconds(nextConfig, sessionMode)]

\* loadState with nothing stored, its numbers as JavaScript numbers.
InitSettings ==
  /\ pomodoro =
       [loadState EXCEPT
          !.remainingSeconds = Finite(@),
          !.sessionSeconds = Finite(@),
          !.config = [f \in ConfigFields |->
                        IF f \in NumericFields THEN Finite(@[f]) ELSE @[f]]]
  /\ tasks = [t \in TimerTasks |-> TimerTask(t)]
  /\ processedPomodoroSessionsRef = 0
  /\ now = 0
  /\ outcome = "none"
  /\ credited = [t \in TimerTasks |-> 0]
  /\ frame = NoFrame
  /\ focusRun = 0
  /\ completions = 0
  /\ raw = <<>>
  /\ sanitized = null
  /\ InitHost

\* onChange of a numeric input of the form (PomodoroBar.tsx lines 211-246):
\* onUpdateConfig({ field: Number(event.target.value) || config.field }).
DoChangeNumber ==
  \E f \in NumericFields, text \in FormTexts :
    /\ pomodoro' =
         JsUpdateConfig(pomodoro,
                        [g \in {f} |-> JsOr(Number(text), pomodoro.config[f])])
    /\ UNCHANGED <<tasks, processedPomodoroSessionsRef, now, outcome, credited,
                   frame, focusRun, completions, raw, sanitized>>

\* onChange of a checkbox of the form (lines 255-264).
DoChangeToggle ==
  \E f \in ConfigFields \ NumericFields, checked \in BOOLEAN :
    /\ pomodoro' = JsUpdateConfig(pomodoro, [g \in {f} |-> checked])
    /\ UNCHANGED <<tasks, processedPomodoroSessionsRef, now, outcome, credited,
                   frame, focusRun, completions, raw, sanitized>>

\* updateConfig called by another user of the hook with a value that is
\* not finite.
DoUpdateConfigNonFinite ==
  \E f \in NumericFields, value \in {NaN, Infinity} :
    /\ pomodoro' = JsUpdateConfig(pomodoro, [g \in {f} |-> value])
    /\ UNCHANGED <<tasks, processedPomodoroSessionsRef, now, outcome, credited,
                   frame, focusRun, completions, raw, sanitized>>

NextSettings ==
  \/ DoChangeNumber /\ UNCHANGED hostVars
  \/ DoChangeToggle /\ UNCHANGED hostVars
  \/ DoUpdateConfigNonFinite /\ UNCHANGED hostVars

SpecSettings == InitSettings /\ [][NextSettings]_vars

\* C20: updateConfig given a value that is not finite keeps the previous
\* value of the field: every numeric field of config, remainingSeconds and
\* sessionSeconds are finite in every state.
C20_ConfigStaysFinite ==
  /\ \A f \in NumericFields : IsFinite(pomodoro.config[f])
  /\ IsFinite(pomodoro.remainingSeconds)
  /\ IsFinite(pomodoro.sessionSeconds)

-----------------------------------------------------------------------------
(* sanitizeJson (useTaskStore.ts, lines 16-45), on texts of single         *)
(* characters.                                                             *)

\* A character the class \s of the regular expression matches.
WhiteSpace == {" "}

\* The characters of the texts given to sanitizeJson: the ones the scan
\* tells apart, and a letter for every other character.
SanitizeAlphabet == {",", "\"", "\\", " ", "}", "]", "a"}

RawTexts == UNION {[1..n -> SanitizeAlphabet] : n \in 0..MaxLen}

\* The while loop of lines 25-28: the first index from lookahead on that
\* holds no white space (possibly past the end of the text).
RECURSIVE SkipWhiteSpace(_, _)
SkipWhiteSpace(text, lookahead) ==
  IF lookahead <= Len(text) /\ text[lookahead] \in WhiteSpace
  THEN SkipWhiteSpace(text, lookahead + 1)
  ELSE lookahead

\* raw[lookahead], undefined past the end.
CharAt(text, index) ==
  IF index <= Len(text) THEN text[index] ELSE "undefined"

\* The for loop of lines 21-42 from index on.
RECURSIVE ScanFrom(_, _, _, _, _)
ScanFrom(text, index, inString, escapeNext, result) ==
  IF index > Len(text) THEN result
  ELSE LET char == text[index]
           next == CharAt(text, SkipWhiteSpace(text, index + 1))
       IN IF ~inString /\ char = "," /\ next \in {"}", "]"}
          THEN ScanFrom(text, index + 1, inString, FALSE, result)
          ELSE ScanFrom(text, index + 1,
                        IF char = "\"" /\ ~escapeNext
                        THEN ~inString ELSE inString,
                        ~escapeNext /\ char = "\\",
                        Append(result, char))

sanitizeJson(text) == ScanFrom(text, 1, FALSE, FALSE, <<>>)

InitSanitize ==
  /\ raw \in RawTexts
  /\ sanitized = null
  /\ pomodoro = loadState
  /\ tasks = <<>>
  /\ processedPomodoroSessionsRef = 0
  /\ now = 0
  /\ outcome = "none"
  /\ credited = <<>>
  /\ frame = NoFrame
  /\ focusRun = 0
  /\ completions = 0
  /\ InitHost

DoSanitize ==
  /\ sanitized = null
  /\ sanitized' = sanitizeJson(raw)
  /\ UNCHANGED <<raw, pomodoro, tasks, processedPomodoroSessionsRef, now,
                 outcome, credited, frame, focusRun, completions>>

NextSanitize == DoSanitize /\ UNCHANGED hostVars

SpecSanitize == InitSanitize /\ [][NextSanitize]_vars

-----------------------------------------------------------------------------
(* Claim about sanitizeJson, checked under SpecSanitize.                   *)

\* Where a reader of JSON text is before the character at index: outside
\* every string literal ("out"), inside one ("in"), or inside one and after
\* a backslash that escapes the next character ("escape").  A quote outside
\* a literal opens one; inside one, an unescaped quote closes it.
RECURSIVE ReaderBefore(_, _)
ReaderBefore(text, index) ==
  IF index = 1 THEN "out"
  ELSE LET before == ReaderBefore(text, index - 1)
           char == text[index - 1]
       IN CASE before = "out" -> IF char = "\"" THEN "in" ELSE "out"
            [] before = "in" -> IF char = "\\" THEN "escape"
                                ELSE IF char = "\"" THEN "out" ELSE "in"
            [] before = "escape" -> "in"

\* The comma at index lies outside the string literals, and only white space
\* separates it from a closing brace or bracket.
TrailingComma(text, index) ==
  /\ text[index] = ","
  /\ ReaderBefore(text, index) = "out"
  /\ \E close \in (index + 1)..Len(text) :
       /\ text[close] \in {"}", "]"}
       /\ \A between \in (index + 1)..(close - 1) : text[between] \in WhiteSpace

\* The text without the characters at the positions of drop, in order.
RECURSIVE Without(_, _, _)
Without(text, drop, index) ==
  IF index > Len(text) THEN <<>>
  ELSE IF index \in drop THEN Without(text, drop, index + 1)
  ELSE <<text[index]>> \o Without(text, drop, index + 1)

\* C9: sanitizeJson removes exactly the commas that lie outside string
\* literals and are followed by optional white space and then '}' or ']';
\* every other character, and every character inside a string literal, is
\* output unchanged and in order.
C9_RemovesExactlyTrailingCommas ==
  sanitized # null =>
    sanitized = Without(raw, {i \in 1..Len(raw) : TrailingComma(raw, i)}, 1)

-----------------------------------------------------------------------------
(* useTaskStore.ts: values                                                 *)

\* A title with a leading blank, and the name of a property that every
\* object literal inherits from Object.prototype.
PaddedId == <<" ", "A">>
InheritedId == Str("constructor")
Ids == {PaddedId, InheritedId}

\* The names base[id] finds on the object literal {} that createBase starts
\* from, although no task was stored under them.
InheritedNames == {InheritedId}

\* Values of JSON.parse, and undefined for a field an object lacks.  An
\* object is its entries in the order of Object.entries.
JString(text) == [kind |-> "string", val |-> text]
JNumber(n) == [kind |-> "number", val |-> n]
JBoolean(b) == [kind |-> "boolean", val |-> b]
JNull == [kind |-> "null", val |-> 0]
JUndefined == [kind |-> "undefined", val |-> 0]
JArray(items) == [kind |-> "array", val |-> items]
JObject(entries) == [kind |-> "object", val |-> entries]
Entry(key, value) == [key |-> key, val |-> value]

\* JSON.parse(sanitizeJson(rawJson)) threw.
SyntaxError == [kind |-> "SyntaxError", val |-> 0]

\* 'name' in value.
HasKey(value, name) ==
  /\ value.kind = "object"
  /\ \E i \in 1..Len(value.val) : value.val[i].key = name

\* value.name
Field(value, name) ==
  IF HasKey(value, name)
  THEN value.val[CHOOSE i \in 1..Len(value.val) : value.val[i].key = name].val
  ELSE JUndefined

\* Object.entries(value) of an object or an array.
EntriesOf(value) ==
  IF value.kind = "object" THEN value.val
  ELSE [i \in 1..Len(value.val) |->
          Entry(Str(ToString(i - 1)), value.val[i])]

\* String.prototype.trim
RECURSIVE TrimStart(_)
TrimStart(text) ==
  IF text # <<>> /\ Head(text) \in WhiteSpace
  THEN TrimStart(Tail(text)) ELSE text

RECURSIVE TrimEnd(_)
TrimEnd(text) ==
  IF text # <<>> /\ text[Len(text)] \in WhiteSpace
  THEN TrimEnd(SubSeq(text, 1, Len(text) - 1)) ELSE text

Trim(text) == TrimEnd(TrimStart(text))

\* typeof value === 'string', of a text-valued field.
IsText(value) == value \notin {null, undefined}

\* value ?? other, of a text-valued field.
OrText(value, other) == IF IsText(value) THEN value ELSE other

\* The task collection with nothing in it.
EmptyMap == [id \in {} |-> 0]

\* map[id] is truthy: a stored task, or what the object inherits.
Has(map, id) == id \in DOMAIN map \/ id \in InheritedNames

\* The fields read from a value that is no task: from undefined by ?. and
\* from the inherited Object function by a plain read.  All are undefined;
\* done, timeSpentSeconds, contemplationTag and capturedViaContemplation
\* hold what their readers make of undefined (?? false, the typeof test of
\* finalizeTask, ?? null, ?? false).
NoTask ==
  [id |-> undefined, title |-> undefined, due |-> undefined,
   quadrant |-> "undefined", done |-> FALSE, createdAt |-> undefined,
   completedAt |-> undefined, timeSpentSeconds |-> 0,
   contemplationTag |-> "null", capturedViaContemplation |-> FALSE]

\* map[id]
Get(map, id) == IF id \in DOMAIN map THEN map[id] ELSE NoTask

\* map[id] = task
Put(map, id, task) ==
  [x \in DOMAIN map \cup {id} |-> IF x = id THEN task ELSE map[x]]

-----------------------------------------------------------------------------
(* useTaskStore.ts: normalizeDue, finalizeTask and the shape tests         *)

\* normalizeDue that trims and keeps what is left.
normalizeDue_TrimOnly(value) ==
  IF ~IsText(value) THEN null ELSE Trim(value)

normalizeDue(value) ==
  IF ~IsText(value) \/ value = <<>> THEN null
  ELSE LET trimmed == Trim(value)
       IN IF Len(trimmed) = 0 THEN null ELSE trimmed

finalizeTask(input, nowIso) ==
  [id |-> input.id,
   title |-> input.title,
   due |-> normalizeDue(input.due),
   quadrant |-> input.quadrant,
   done |-> input.done,
   createdAt |-> IF IsText(input.createdAt) THEN input.createdAt ELSE nowIso,
   completedAt |-> IF IsText(input.completedAt) THEN input.completedAt
                   ELSE null,
   timeSpentSeconds |-> Max(0, input.timeSpentSeconds),
   contemplationTag |-> IF input.contemplationTag = "undefined" THEN "null"
                        ELSE input.contemplationTag,
   capturedViaContemplation |-> input.capturedViaContemplation]

\* The text of a quadrant name, as a key or a string of a payload.
QuadrantTexts == {Str(q) : q \in Quadrants}

isQuadrant(value) == value.kind = "string" /\ value.val \in QuadrantTexts

ContemplationTags ==
  {"energy_high", "energy_gentle", "mood_pleasant", "mood_neutral"}

isContemplationTag(value) ==
  value.kind = "string" /\ value.val \in {Str(t) : t \in ContemplationTags}

isPlainObject(value) == value.kind = "object"

isStringRecord(value) ==
  /\ isPlainObject(value)
  /\ \A i \in 1..Len(value.val) : value.val[i].val.kind = "string"

isExportPayload(value) ==
  /\ value.kind \in {"object", "array"}
  /\ HasKey(value, Str("tasks"))
  /\ Field(value, Str("tasks")).kind \in {"object", "array"}

-----------------------------------------------------------------------------
(* useTaskStore.ts: importTasks (lines 168-382)                            *)

\* What a call of importTasks leaves: the collection, and what it returned.
\* A throw happens before setTasks, so it leaves the collection of before.
\* error is the Error thrown: "json" (line 176), "shape" (line 180), "value"
\* (line 335), "type" (the TypeError of a due without trim), or "none".
Thrown(prev, error) ==
  [error |-> error, tasks |-> prev, added |-> 0, updated |-> 0, total |-> 0]

Returned(acc) ==
  [error |-> "none", tasks |-> acc.base, added |-> acc.added,
   updated |-> acc.updated, total |-> acc.added + acc.updated]

\* createBase with every quadrant reset, whatever the option says.
createBase_AlwaysReset(prev, resetQuadrants, nowIso) ==
  [id \in DOMAIN prev |->
     finalizeTask([prev[id] EXCEPT !.id = id, !.quadrant = "backlog"], nowIso)]

\* createBase (lines 183-217): every task of the collection, finalized
\* again, in backlog when resetQuadrants is set.
createBase(prev, resetQuadrants, nowIso) ==
  [id \in DOMAIN prev |->
     finalizeTask(
       [id |-> id,
        title |-> prev[id].title,
        due |-> OrText(prev[id].due, null),
        quadrant |-> IF resetQuadrants THEN "backlog" ELSE prev[id].quadrant,
        done |-> prev[id].done,
        createdAt |-> prev[id].createdAt,
        completedAt |-> prev[id].completedAt,
        timeSpentSeconds |-> prev[id].timeSpentSeconds,
        contemplationTag |-> prev[id].contemplationTag,
        capturedViaContemplation |-> prev[id].capturedViaContemplation],
       nowIso)]

\* The task an entry of a flat or quadrant-grouped payload creates
\* (lines 318-326 and 358-366).
NewTask(id, due, quadrant, nowIso) ==
  finalizeTask(
    [id |-> id, title |-> id, due |-> due, quadrant |-> quadrant,
     done |-> FALSE, createdAt |-> undefined, completedAt |-> undefined,
     timeSpentSeconds |-> 0, contemplationTag |-> "null",
     capturedViaContemplation |-> FALSE],
    nowIso)

\* The task an entry of a flat or quadrant-grouped payload leaves for a
\* truthy base[id] (lines 303-315 and 343-355).
MergedTask(current, id, due, quadrant, nowIso) ==
  finalizeTask(
    [id |-> id, title |-> current.title, due |-> due, quadrant |-> quadrant,
     done |-> current.done, createdAt |-> current.createdAt,
     completedAt |-> current.completedAt,
     timeSpentSeconds |-> current.timeSpentSeconds,
     contemplationTag |-> current.contemplationTag,
     capturedViaContemplation |-> current.capturedViaContemplation],
    nowIso)

\* The loop of lines 340-369 from index on.
RECURSIVE ImportFlatEntries(_, _, _, _)
ImportFlatEntries(acc, entries, index, nowIso) ==
  IF index > Len(entries) THEN acc
  ELSE LET id == entries[index].key
           due == normalizeDue(entries[index].val.val)
           current == Get(acc.base, id)
           next ==
             IF Has(acc.base, id)
             THEN [acc EXCEPT
                     !.base = Put(acc.base, id,
                                  MergedTask(current, id, due,
                                             current.quadrant, nowIso)),
                     !.updated = @ + 1]
             ELSE [acc EXCEPT
                     !.base = Put(acc.base, id,
                                  NewTask(id, due, "backlog", nowIso)),
                     !.added = @ + 1]
       IN ImportFlatEntries(next, entries, index + 1, nowIso)

\* The forEach of lines 300-329 from index on, for one quadrant key.
RECURSIVE ImportQuadrantEntries(_, _, _, _, _)
ImportQuadrantEntries(acc, quadrantKey, entries, index, nowIso) ==
  IF index > Len(entries) THEN acc
  ELSE LET id == entries[index].key
           due == normalizeDue(entries[index].val.val)
           current == Get(acc.base, id)
           next ==
             IF Has(acc.base, id)
             THEN [acc EXCEPT
                     !.base = Put(acc.base, id,
                                  MergedTask(current, id, due, quadrantKey,
                                             nowIso)),
                     !.updated = @ + 1]
             ELSE [acc EXCEPT
                     !.base = Put(acc.base, id,
                                  NewTask(id, due, quadrantKey, nowIso)),
                     !.added = @ + 1]
       IN ImportQuadrantEntries(next, quadrantKey, entries, index + 1, nowIso)

\* The loop of lines 299-330 from index on.
RECURSIVE ImportQuadrants(_, _, _, _)
ImportQuadrants(acc, quadrantEntries, index, nowIso) ==
  IF index > Len(quadrantEntries) THEN acc
  ELSE ImportQuadrants(
         ImportQuadrantEntries(acc, quadrantEntries[index].key[1],
                               quadrantEntries[index].val.val, 1, nowIso),
         quadrantEntries, index + 1, nowIso)

\* value.trim().length > 0 of a string value (lines 234, 244, 248).
IsFilledString(value) == value.kind = "string" /\ Len(Trim(value.val)) > 0

\* normalizeDue(descriptor.due ?? null) throws a TypeError: the value is
\* truthy and has no trim method.
DueThrows(due) ==
  \/ due.kind \in {"object", "array"}
  \/ due.kind = "number" /\ due.val # 0
  \/ due.kind = "boolean" /\ due.val

\* The task lines 232-282 leave for an object descriptor under id.
DescribedTask(base, id, descriptor, nowIso) ==
  LET current == Get(base, id)
      title == Field(descriptor, Str("title"))
      due == Field(descriptor, Str("due"))
      quadrant == Field(descriptor, Str("quadrant"))
      done == Field(descriptor, Str("done"))
      createdAt == Field(descriptor, Str("createdAt"))
      completedAt == Field(descriptor, Str("completedAt"))
      timeSpentSeconds == Field(descriptor, Str("timeSpentSeconds"))
      contemplationTag == Field(descriptor, Str("contemplationTag"))
      captured == Field(descriptor, Str("capturedViaContemplation"))
      normalizedTitle ==
        IF IsFilledString(title) THEN Trim(title.val)
        ELSE OrText(current.title, id)
      normalizedDue ==
        IF due.kind = "string" THEN normalizeDue(due.val) ELSE null
      normalizedQuadrant ==
        IF isQuadrant(quadrant) THEN quadrant.val[1]
        ELSE IF current.quadrant = "undefined" THEN "backlog"
        ELSE current.quadrant
      normalizedDone ==
        IF done.kind = "boolean" THEN done.val ELSE current.done
      normalizedCreatedAt ==
        IF IsFilledString(createdAt) THEN createdAt.val ELSE current.createdAt
      normalizedCompletedAt ==
        IF IsFilledString(completedAt) THEN completedAt.val
        ELSE IF normalizedDone THEN OrText(current.completedAt, null)
        ELSE null
      normalizedTimeSpent ==
        IF timeSpentSeconds.kind = "number" THEN Max(0, timeSpentSeconds.val)
        ELSE current.timeSpentSeconds
      normalizedTag ==
        IF isContemplationTag(contemplationTag) THEN contemplationTag.val[1]
        ELSE current.contemplationTag
      normalizedCaptured ==
        IF captured.kind = "boolean" THEN captured.val
        ELSE current.capturedViaContemplation
  IN finalizeTask(
       [id |-> id,
        title |-> normalizedTitle,
        due |-> normalizedDue,
        quadrant |-> normalizedQuadrant,
        done |-> normalizedDone,
        createdAt |-> OrText(normalizedCreatedAt, current.createdAt),
        completedAt |-> IF normalizedDone THEN normalizedCompletedAt
                        ELSE null,
        timeSpentSeconds |-> normalizedTimeSpent,
        contemplationTag |-> normalizedTag,
        capturedViaContemplation |-> normalizedCaptured],
       nowIso)

\* The loop of lines 227-283 from index on; acc.threw once a descriptor
\* made normalizeDue throw.
RECURSIVE ImportDescriptors(_, _, _, _)
ImportDescriptors(acc, entries, index, nowIso) ==
  IF index > Len(entries) \/ acc.threw THEN acc
  ELSE LET id == entries[index].key
           descriptor == entries[index].val
           next ==
             IF descriptor.kind \notin {"object", "array"} THEN acc
             ELSE IF DueThrows(Field(descriptor, Str("due")))
             THEN [acc EXCEPT !.threw = TRUE]
             ELSE [acc EXCEPT
                     !.base = Put(acc.base, id,
                                  DescribedTask(acc.base, id, descriptor,
                                                nowIso)),
                     !.updated = IF Has(acc.base, id) THEN @ + 1 ELSE @,
                     !.added = IF Has(acc.base, id) THEN @ ELSE @ + 1]
       IN ImportDescriptors(next, entries, index + 1, nowIso)

\* The flat branch without the test of line 334: the entries with a string
\* value are applied, and the others make the call throw afterwards.
FlatBranch_Unchecked(prev, entries, resetQuadrants, nowIso) ==
  LET strings == SelectSeq(entries, LAMBDA e : e.val.kind = "string")
      acc == ImportFlatEntries(
               [base |-> createBase(prev, resetQuadrants, nowIso),
                added |-> 0, updated |-> 0, threw |-> FALSE],
               strings, 1, nowIso)
  IN IF Len(strings) < Len(entries)
     THEN Thrown(acc.base, "value")
     ELSE Returned(acc)

\* The flat branch (lines 333-372).
FlatBranch(prev, entries, resetQuadrants, nowIso) ==
  IF \E i \in 1..Len(entries) : entries[i].val.kind # "string"
  THEN Thrown(prev, "value")
  ELSE Returned(ImportFlatEntries(
                  [base |-> createBase(prev, resetQuadrants, nowIso),
                   added |-> 0, updated |-> 0, threw |-> FALSE],
                  entries, 1, nowIso))

\* importTasks on the outcome of JSON.parse(sanitizeJson(rawJson)).
importTasks(prev, payload, resetQuadrants, nowIso) ==
  IF payload = SyntaxError THEN Thrown(prev, "json")
  ELSE IF payload.kind # "object" THEN Thrown(prev, "shape")
  ELSE LET fresh == [base |-> createBase(prev, resetQuadrants, nowIso),
                     added |-> 0, updated |-> 0, threw |-> FALSE]
           entries == EntriesOf(payload)
           quadrantEntries ==
             SelectSeq(entries,
                       LAMBDA e : /\ e.key \in QuadrantTexts
                                  /\ isStringRecord(e.val))
       IN IF isExportPayload(payload)
          THEN LET acc == ImportDescriptors(
                            fresh,
                            EntriesOf(Field(payload, Str("tasks"))),
                            1, nowIso)
               IN IF acc.threw THEN Thrown(prev, "type") ELSE Returned(acc)
          ELSE IF /\ Len(quadrantEntries) > 0
                  /\ Len(quadrantEntries) = Len(entries)
          THEN Returned(ImportQuadrants(fresh, quadrantEntries, 1, nowIso))
          ELSE FlatBranch(prev, entries, resetQuadrants, nowIso)

-----------------------------------------------------------------------------
(* useTaskStore.ts: moveTask, updateTask, deleteTask; export.ts            *)

\* moveTask (lines 383-394).
moveTask(prev, taskId, quadrant) ==
  IF ~Has(prev, taskId) \/ Get(prev, taskId).quadrant = quadrant THEN prev
  ELSE Put(prev, taskId, [Get(prev, taskId) EXCEPT !.quadrant = quadrant])

\* new Date(iso).getTime() / 1000 of a timestamp the clock produced.
SecondsOf(iso) == CHOOSE n \in 0..MaxClock : Iso(n) = iso

\* updateTask with completedAt kept when done is set to false.
updateTask_KeepingCompletedAt(prev, taskId, updates, nowIso) ==
  IF ~Has(prev, taskId) THEN prev
  ELSE LET current == Get(prev, taskId)
           given(field) == field \in DOMAIN updates
           completedAt ==
             IF given("done") /\ updates.done THEN nowIso
             ELSE OrText(current.completedAt, null)
       IN Put(prev, taskId,
              [current EXCEPT
                 !.title = IF given("title") THEN updates.title ELSE @,
                 !.due = IF given("due") THEN normalizeDue(updates.due) ELSE @,
                 !.done = IF given("done") THEN updates.done ELSE @,
                 !.createdAt = OrText(current.createdAt, nowIso),
                 !.completedAt = completedAt])

\* updateTask (lines 396-437); updates has the fields the caller passed.
updateTask(prev, taskId, updates, nowIso) ==
  IF ~Has(prev, taskId) THEN prev
  ELSE LET current == Get(prev, taskId)
           given(field) == field \in DOMAIN updates
           nextDone == IF given("done") THEN updates.done ELSE current.done
           completedAt ==
             IF given("done")
             THEN IF updates.done THEN nowIso ELSE null
             ELSE OrText(current.completedAt, null)
           createdAt == OrText(current.createdAt, nowIso)
           nextTimeSpent ==
             IF given("timeSpentSeconds")
             THEN Max(0, updates.timeSpentSeconds)
             ELSE current.timeSpentSeconds
           autoTimeSpent ==
             IF given("done") /\ updates.done /\ ~current.done
             THEN Max(0, SecondsOf(completedAt) - SecondsOf(createdAt))
             ELSE nextTimeSpent
       IN Put(prev, taskId,
              [current EXCEPT
                 !.title = IF given("title") THEN updates.title ELSE @,
                 !.due = IF given("due") THEN normalizeDue(updates.due) ELSE @,
                 !.done = nextDone,
                 !.createdAt = createdAt,
                 !.completedAt = completedAt,
                 !.timeSpentSeconds = Max(nextTimeSpent, autoTimeSpent),
                 !.contemplationTag =
                   IF given("contemplationTag") THEN updates.contemplationTag
                   ELSE @])

\* deleteTask (lines 470-479).
deleteTask(prev, taskId) ==
  IF ~Has(prev, taskId) THEN prev
  ELSE [id \in DOMAIN prev \ {taskId} |-> prev[id]]

\* Object.values(tasks): the tasks in some order (the order the keys were
\* inserted in, which nothing below depends on).
RECURSIVE ValuesOf(_)
ValuesOf(map) ==
  IF DOMAIN map = {} THEN <<>>
  ELSE LET id == CHOOSE x \in DOMAIN map : TRUE
       IN <<map[id]>> \o ValuesOf([x \in DOMAIN map \ {id} |-> map[x]])

\* The entry of one task in the snapshot of createExportPayload, as
\* JSON.parse reads it back: JSON.stringify leaves out a field that is
\* undefined.
ExportedTask(task) ==
  Entry(task.id,
        JObject(
          (IF IsText(task.title)
           THEN <<Entry(Str("title"), JString(task.title))>> ELSE <<>>)
          \o <<Entry(Str("due"),
                     IF IsText(task.due) THEN JString(task.due) ELSE JNull)>>
          \o (IF task.quadrant # "undefined"
              THEN <<Entry(Str("quadrant"), JString(Str(task.quadrant)))>>
              ELSE <<>>)
          \o <<Entry(Str("done"), JBoolean(task.done))>>))

\* createExportPayload (export.ts, lines 16-33), written by JSON.stringify
\* and read back by JSON.parse.
createExportPayload(map, exportedAt) ==
  LET values == ValuesOf(map)
  IN JObject(<<Entry(Str("version"), JNumber(2)),
               Entry(Str("exportedAt"), JString(exportedAt)),
               Entry(Str("tasks"),
                     JObject([i \in 1..Len(values) |->
                                ExportedTask(values[i])]))>>)

-----------------------------------------------------------------------------
(* The task store: its calls, on the payloads and arguments below.         *)

\* Due texts of payloads and updates: empty, blank, plain and padded.
DueTexts == {<<>>, <<" ">>, Str("D"), <<" ", "D">>}

\* The values of a flat payload: strings, or a number that the flat branch
\* rejects.
FlatValues == {JString(text) : text \in DueTexts} \cup {JNumber(1)}
PairValues == {JString(<<>>), JString(<<" ", "D">>)}

\* Objects of no, one or two keys.
FlatPayloads ==
  {JObject(<<>>)}
  \cup {JObject(<<Entry(PaddedId, v)>>) : v \in FlatValues}
  \cup {JObject(<<Entry(InheritedId, v)>>) : v \in PairValues}
  \cup {JObject(<<Entry(PaddedId, v), Entry(InheritedId, w)>>) :
          v \in PairValues, w \in PairValues}
  \cup {JObject(<<Entry(PaddedId, JString(Str("D"))),
                  Entry(InheritedId, JNumber(1))>>)}

\* Quadrant-grouped objects, and one with a further key, which is no
\* quadrant-grouped payload and goes to the flat branch.
GroupedPayloads ==
  {JObject(<<Entry(Str("Q1"),
                   JObject(<<Entry(PaddedId, JString(Str("D")))>>))>>)}
  \cup {JObject(<<Entry(Str("Q1"),
                        JObject(<<Entry(PaddedId, JString(<<>>))>>)),
                  Entry(PaddedId, JString(<<>>))>>)}

Descriptors ==
  {JObject(<<>>),
   JNull,
   JObject(<<Entry(Str("due"), JString(<<" ", "D">>)),
             Entry(Str("quadrant"), JString(Str("Q1")))>>),
   JObject(<<Entry(Str("due"), JNumber(1))>>)}

ExportPayloads ==
  {JObject(<<Entry(Str("tasks"), JObject(<<Entry(PaddedId, d)>>))>>) :
     d \in Descriptors}
  \cup {JObject(<<Entry(Str("tasks"), JNull)>>),
        JObject(<<Entry(Str("tasks"), JArray(<<>>))>>)}

\* What JSON.parse throws on or returns that is no object.
RejectedPayloads == {SyntaxError, JNull, JArray(<<>>), JNumber(1)}

Payloads ==
  FlatPayloads \cup GroupedPayloads \cup ExportPayloads \cup RejectedPayloads

\* A valid flat payload: an object of title to due string.
IsFlatPayload(payload) ==
  payload.kind = "object" /\ isStringRecord(payload)

ValidFlatPayloads == {payload \in FlatPayloads : IsFlatPayload(payload)}

\* The keys of an object payload.
KeysOf(payload) == {payload.val[i].key : i \in 1..Len(payload.val)}

\* The quadrants a task is dragged to.
MoveTargets == {"backlog", "Q1"}

\* The updates of the task card: completion, a due text.
Updates == {[done |-> TRUE], [due |-> <<" ", "D">>]}

\* The ids the board passes to moveTask, updateTask and deleteTask: those of
\* the tasks it shows, and one of a task that is gone.
CallIds == DOMAIN tasks \cup {PaddedId}

\* outcome: the last call (importTasks, or an edit of one task), the Error
\* it threw and the summary it returned.
NoCall == [op |-> "none", error |-> "none", added |-> 0, updated |-> 0]

InitStore ==
  /\ tasks = EmptyMap
  /\ now = 0
  /\ outcome = NoCall
  /\ pomodoro = loadState
  /\ processedPomodoroSessionsRef = 0
  /\ credited = <<>>
  /\ frame = NoFrame
  /\ focusRun = 0
  /\ completions = 0
  /\ raw = <<>>
  /\ sanitized = null
  /\ InitHost

\* importTasks of a text that parses to one of payloads.
ImportCall(payloads) ==
  \E payload \in payloads, resetQuadrants \in BOOLEAN :
    LET result == importTasks(tasks, payload, resetQuadrants, Iso(now))
    IN /\ tasks' = result.tasks
       /\ outcome' = [op |-> "importTasks", error |-> result.error,
                      added |-> result.added, updated |-> result.updated]
       /\ UNCHANGED <<now, pomodoro, processedPomodoroSessionsRef, credited,
                      frame, focusRun, completions, raw, sanitized>>

\* importTasks of any payload, or of the export of the collection itself.
DoImportTasks ==
  ImportCall(Payloads \cup {createExportPayload(tasks, Iso(now))})

DoMoveTask ==
  \E taskId \in CallIds, quadrant \in MoveTargets :
    /\ tasks' = moveTask(tasks, taskId, quadrant)
    /\ outcome' = [NoCall EXCEPT !.op = "edit"]
    /\ UNCHANGED <<now, pomodoro, processedPomodoroSessionsRef, credited,
                   frame, focusRun, completions, raw, sanitized>>

DoUpdateTask ==
  \E taskId \in CallIds, updates \in Updates :
    /\ tasks' = updateTask(tasks, taskId, updates, Iso(now))
    /\ outcome' = [NoCall EXCEPT !.op = "edit"]
    /\ UNCHANGED <<now, pomodoro, processedPomodoroSessionsRef, credited,
                   frame, focusRun, completions, raw, sanitized>>

DoDeleteTask ==
  \E taskId \in CallIds :
    /\ tasks' = deleteTask(tasks, taskId)
    /\ outcome' = [NoCall EXCEPT !.op = "edit"]
    /\ UNCHANGED <<now, pomodoro, processedPomodoroSessionsRef, credited,
                   frame, focusRun, completions, raw, sanitized>>

\* Time passes between two calls.
AdvanceClock ==
  /\ now < MaxClock
  /\ now' = now + 1
  /\ UNCHANGED <<tasks, outcome, pomodoro, processedPomodoroSessionsRef,
                 credited, frame, focusRun, completions, raw, sanitized>>

NextStore ==
  \/ DoImportTasks /\ UNCHANGED hostVars
  \/ DoMoveTask /\ UNCHANGED hostVars
  \/ DoUpdateTask /\ UNCHANGED hostVars
  \/ DoDeleteTask /\ UNCHANGED hostVars
  \/ AdvanceClock /\ UNCHANGED hostVars

SpecStore == InitStore /\ [][NextStore]_vars

\* The store as the round trip of the export finds it: an empty collection,
\* valid flat payloads imported into it, updateTask and moveTask.
DoImportFlat == ImportCall(ValidFlatPayloads)

NextFlat ==
  \/ DoImportFlat /\ UNCHANGED hostVars
  \/ DoMoveTask /\ UNCHANGED hostVars
  \/ DoUpdateTask /\ UNCHANGED hostVars
  \/ AdvanceClock /\ UNCHANGED hostVars

SpecFlat == InitStore /\ [][NextFlat]_vars

-----------------------------------------------------------------------------
(* Claims about importTasks and the export.  C4 is checked under SpecStore *)
(* and C5 to C8 under SpecFlat, for every payload and option the call may   *)
(* be given in each collection reached.                                    *)

\* The payloads of the cases the claim lists: no JSON text, an array, null
\* or a primitive, and a flat payload (neither an export nor a
\* quadrant-grouped one) that holds a value that is no string.
IsListedFailure(payload) ==
  \/ payload.kind # "object"
  \/ /\ ~isExportPayload(payload)
     /\ \E i \in 1..Len(payload.val) :
          /\ payload.val[i].val.kind # "string"
          /\ \/ payload.val[i].key \notin QuadrantTexts
             \/ ~isStringRecord(payload.val[i].val)

\* C4: a call of importTasks that throws leaves the task collection exactly
\* as it was before the call, and the call does throw for a text that does
\* not parse, for an array, null or a primitive, and for a flat-shape payload
\* that holds a non-string value.
C4_FailedImportNotApplied ==
  \A payload \in Payloads, resetQuadrants \in BOOLEAN :
    LET result == importTasks(tasks, payload, resetQuadrants, Iso(now))
    IN /\ result.error # "none" => result.tasks = tasks
       /\ IsListedFailure(payload) => result.error # "none"

\* An import of a flat payload with a non-string value has thrown on a
\* collection that holds tasks.
C4_Witness ==
  /\ outcome.op = "importTasks"
  /\ outcome.error = "value"
  /\ DOMAIN tasks = Ids

\* C5: a flat payload of N titles, none of them in the collection, imported
\* with resetQuadrants false returns added = N and updated = 0, and imported
\* again (at once or later) returns added = 0 and updated = N and leaves the
\* collection of the first import.
C5_IdempotentFlatReimport ==
  \A payload \in ValidFlatPayloads :
    KeysOf(payload) \cap DOMAIN tasks = {} =>
      LET n == Len(payload.val)
          first == importTasks(tasks, payload, FALSE, Iso(now))
      IN /\ first.error = "none"
         /\ first.added = n
         /\ first.updated = 0
         /\ \A later \in now..MaxClock :
              LET second ==
                    importTasks(first.tasks, payload, FALSE, Iso(later))
              IN /\ second.error = "none"
                 /\ second.added = 0
                 /\ second.updated = n
                 /\ second.tasks = first.tasks

\* The due a payload string is stored as: the string without the white
\* space around it, null when nothing is left.
StoredDue(text) == IF Trim(text) = <<>> THEN null ELSE Trim(text)

C7_ResetMovesAllToBacklog ==
  \A payload \in ValidFlatPayloads :
    LET result == importTasks(tasks, payload, TRUE, Iso(now))
    IN /\ result.error = "none"
       /\ \A id \in DOMAIN result.tasks :
            result.tasks[id].quadrant = "backlog"
       /\ \A id \in DOMAIN tasks \ KeysOf(payload) :
            result.tasks[id] = [tasks[id] EXCEPT !.quadrant = "backlog"]

\* C8: the export of a collection built from valid flat payloads, updateTask
\* and moveTask, imported into an empty store, gives a collection of the
\* same ids with the same title, due, quadrant and done for each.
C8_ExportImportLossless ==
  LET result == importTasks(EmptyMap, createExportPayload(tasks, Iso(now)),
                            FALSE, Iso(now))
  IN /\ result.error = "none"
     /\ DOMAIN result.tasks = DOMAIN tasks
     /\ \A id \in DOMAIN tasks :
          /\ result.tasks[id].title = tasks[id].title
          /\ result.tasks[id].due = tasks[id].due
          /\ result.tasks[id].quadrant = tasks[id].quadrant
          /\ result.tasks[id].done = tasks[id].done

-----------------------------------------------------------------------------
(* Export-shape import of one descriptor (useTaskStore.ts, lines 227-283)  *)

\* The fields of a task record that a descriptor may carry.
DescriptorFields ==
  {"title", "due", "quadrant", "done", "createdAt", "completedAt",
   "timeSpentSeconds", "contemplationTag", "capturedViaContemplation"}

\* The descriptors of the universe that the export branch applies.
AppliedDescriptors ==
  {d \in Descriptors :
     d.kind = "object" /\ ~DueThrows(Field(d, Str("due")))}

\* '{"tasks": {id: descriptor}}'
OneDescriptor(id, descriptor) ==
  JObject(<<Entry(Str("tasks"), JObject(<<Entry(id, descriptor)>>))>>)

\* C21: an export-shape import of one descriptor leaves every field that the
\* descriptor does not carry as the stored task of that id has it, and as a
\* new task has it by default when no task of that id is stored.
C21_AbsentFieldsKept ==
  \A id \in Ids, descriptor \in AppliedDescriptors :
    LET result == importTasks(tasks, OneDescriptor(id, descriptor), FALSE,
                              Iso(now))
        expected == IF id \in DOMAIN tasks THEN tasks[id]
                    ELSE NewTask(id, null, "backlog", Iso(now))
    IN /\ result.error = "none"
       /\ \A name \in DescriptorFields :
            ~HasKey(descriptor, Str(name))
              => result.tasks[id][name] = expected[name]

-----------------------------------------------------------------------------
(* The three branches of importTasks (useTaskStore.ts, lines 223-372)      *)

\* Object payloads around the borders of the three shapes: a tasks field
\* that is an object, an array, null or a string; quadrant keys over string
\* maps, over a map with a number, over a string, and next to another key;
\* one identity under two quadrants.
ShapePayloads ==
  {payload \in Payloads : payload.kind = "object"}
  \cup {JObject(<<Entry(Str("tasks"), JString(Str("D")))>>),
        JObject(<<Entry(Str("tasks"), JArray(<<JObject(<<>>)>>))>>),
        JObject(<<Entry(Str("tasks"), JObject(<<Entry(PaddedId, JObject(<<>>))>>)),
                  Entry(Str("Q1"), JObject(<<Entry(PaddedId, JString(<<>>))>>))>>),
        JObject(<<Entry(Str("Q1"), JObject(<<>>))>>),
        JObject(<<Entry(Str("Q1"), JString(Str("D")))>>),
        JObject(<<Entry(Str("Q1"), JObject(<<Entry(PaddedId, JNumber(1))>>))>>),
        JObject(<<Entry(Str("Q1"), JArray(<<>>))>>),
        JObject(<<Entry(Str("Q1"), JObject(<<Entry(PaddedId, JString(Str("D")))>>)),
                  Entry(Str("Q2"), JObject(<<Entry(PaddedId, JString(<<>>))>>))>>),
        JObject(<<Entry(Str("Q1"), JObject(<<Entry(PaddedId, JString(Str("D")))>>)),
                  Entry(Str("backlog"),
                        JObject(<<Entry(InheritedId, JString(<<>>))>>))>>)}

\* The shape the classification rule gives an object payload: export when
\* the tasks field is an object of id to descriptor, else quadrant-grouped
\* when there is a key, every key is a quadrant name and every value an
\* object of strings, else flat.
RuleShape(payload) ==
  IF HasKey(payload, Str("tasks"))
     /\ Field(payload, Str("tasks")).kind = "object"
  THEN "export"
  ELSE IF /\ Len(payload.val) > 0
          /\ \A i \in 1..Len(payload.val) :
               /\ payload.val[i].key \in QuadrantTexts
               /\ payload.val[i].val.kind = "object"
               /\ \A j \in 1..Len(payload.val[i].val.val) :
                    payload.val[i].val.val[j].val.kind = "string"
  THEN "grouped"
  ELSE "flat"

\* What the branch of a shape does with an object payload.
BranchResult(shape, prev, payload, resetQuadrants, nowIso) ==
  LET fresh == [base |-> createBase(prev, resetQuadrants, nowIso),
                added |-> 0, updated |-> 0, threw |-> FALSE]
  IN CASE shape = "export" ->
            LET acc == ImportDescriptors(
                         fresh, EntriesOf(Field(payload, Str("tasks"))), 1,
                         nowIso)
            IN IF acc.threw THEN Thrown(prev, "type") ELSE Returned(acc)
       [] shape = "grouped" ->
            Returned(ImportQuadrants(fresh, EntriesOf(payload), 1, nowIso))
       [] shape = "flat" ->
            FlatBranch(prev, EntriesOf(payload), resetQuadrants, nowIso)

\* C22: importTasks handles every object payload by the branch of the shape
\* the classification rule gives it: the export branch exactly for a tasks
\* field that is an object, else the quadrant-grouped branch exactly for
\* quadrant keys over string maps, else the flat branch.
C22_ShapeClassification ==
  \A payload \in ShapePayloads, resetQuadrants \in BOOLEAN :
    importTasks(tasks, payload, resetQuadrants, Iso(now))
      = BranchResult(RuleShape(payload), tasks, payload, resetQuadrants,
                     Iso(now))

-----------------------------------------------------------------------------
(* The summary of importTasks (useTaskStore.ts, lines 219-222, 265-269,    *)
(* 299-317, 342-357, 379)                                                  *)

\* The identities an object payload names: the keys of its tasks field for
\* an export payload, the keys of the maps under its quadrants for a
\* quadrant-grouped one, its own keys for a flat one.
NamedIds(payload) ==
  IF isExportPayload(payload)
  THEN LET entries == EntriesOf(Field(payload, Str("tasks")))
       IN {entries[i].key : i \in 1..Len(entries)}
  ELSE IF /\ Len(payload.val) > 0
          /\ \A i \in 1..Len(payload.val) :
               /\ payload.val[i].key \in QuadrantTexts
               /\ isStringRecord(payload.val[i].val)
  THEN UNION {KeysOf(payload.val[i].val) : i \in 1..Len(payload.val)}
  ELSE KeysOf(payload)

\* C23: an import that succeeds returns as added the number of identities
\* of the payload that the collection did not hold, as updated the number
\* it held, and as total their sum, the number of distinct identities the
\* payload names.
C23_SummaryCountsIdentities ==
  \A payload \in ShapePayloads, resetQuadrants \in BOOLEAN :
    LET result == importTasks(tasks, payload, resetQuadrants, Iso(now))
        named == NamedIds(payload)
    IN result.error = "none"
         => /\ result.added = Cardinality(named \ DOMAIN tasks)
            /\ result.updated = Cardinality(named \cap DOMAIN tasks)
            /\ result.total = result.added + result.updated
            /\ result.total = Cardinality(named)

-----------------------------------------------------------------------------
(* createExportPayload (export.ts, lines 16-33) read back by importTasks    *)

\* The collection, and the collections one updateTask of a contemplation tag
\* away from it.
TaggedCollections ==
  {tasks}
  \cup {updateTask(tasks, id, [contemplationTag |-> tag], Iso(now)) :
          id \in DOMAIN tasks, tag \in ContemplationTags}

\* C24: the export of a collection the store operations reach, imported
\* into an empty store, gives the same identities with the same title, due,
\* quadrant, done, createdAt, completedAt, timeSpentSeconds,
\* contemplationTag and capturedViaContemplation.
C24_ExportCarriesEveryField ==
  \A collection \in TaggedCollections :
    LET result == importTasks(EmptyMap,
                              createExportPayload(collection, Iso(now)),
                              FALSE, Iso(now))
    IN /\ result.error = "none"
       /\ DOMAIN result.tasks = DOMAIN collection
       /\ \A id \in DOMAIN collection, name \in DescriptorFields :
            result.tasks[id][name] = collection[id][name]

-----------------------------------------------------------------------------
(* parseLooseDate (date.ts, lines 7-41)                                    *)

\* In a due text "D" stands for a run of characters that is a date, as
\* '1. 10. 2025 at 0:00' for LOOSE_DATE_REGEX or '2024-01-01T00:00:00.000Z'
\* for Date.parse, and "x" for a run that is none, as 'soon'.  The result is
\* the trimmed text for the Date it stands for, or null.
parseLooseDate(input) ==
  IF ~IsText(input) \/ input = <<>> THEN null
  ELSE LET trimmed == Trim(input)
       IN IF trimmed = <<>> THEN null
          ELSE IF trimmed = Str("D") THEN trimmed
          ELSE null

\* Payloads of each shape with a due string that is no date.
UnparseableDuePayloads ==
  {JObject(<<Entry(PaddedId, JString(Str("x")))>>),
   JObject(<<Entry(Str("Q1"),
                   JObject(<<Entry(PaddedId, JString(Str("x")))>>))>>),
   OneDescriptor(PaddedId, JObject(<<Entry(Str("due"), JString(Str("x")))>>))}

\* C25: an import whose payload carries a due string that parseLooseDate
\* cannot parse succeeds, and every due it leaves in the collection is null
\* or a string parseLooseDate can parse.
C25_UnparseableDueNotStored ==
  \A payload \in UnparseableDuePayloads :
    LET result == importTasks(tasks, payload, FALSE, Iso(now))
    IN /\ result.error = "none"
       /\ \A id \in DOMAIN result.tasks :
            result.tasks[id].due # null
              => parseLooseDate(result.tasks[id].due) # null

-----------------------------------------------------------------------------
(* storage.ts: withDoneFlag, persistBackup, loadState, saveState,          *)
(* scheduleSave                                                            *)

CURRENT_VERSION == 2

\* !value of a parsed JSON value.
IsFalsy(value) ==
  \/ value.kind \in {"null", "undefined"}
  \/ value.kind = "boolean" /\ ~value.val
  \/ value.kind = "number" /\ value.val = 0
  \/ value.kind = "string" /\ value.val = <<>>

\* The task withDoneFlag makes of one stored task (lines 27-38): id, title,
\* due, quadrant and done, and no other field of the stored task.  The
\* fields it leaves out read as those of NoTask.  The stored fields of the
\* texts below are strings, booleans or missing.
MigratedTask(id, task) ==
  LET title == Field(task, Str("title"))
      due == Field(task, Str("due"))
      quadrant == Field(task, Str("quadrant"))
      done == Field(task, Str("done"))
  IN [NoTask EXCEPT
        !.id = id,
        !.title = IF title.kind = "string" THEN title.val ELSE id,
        !.due = IF due.kind = "string" THEN due.val ELSE null,
        !.quadrant = IF quadrant.kind = "string" THEN quadrant.val[1]
                     ELSE "backlog",
        !.done = IF done.kind = "boolean" THEN done.val ELSE FALSE]

\* withDoneFlag (lines 20-45) of parsed.tasks or of parsed.
withDoneFlag(stored) ==
  LET entries == IF stored.kind \in {"object", "array"}
                 THEN EntriesOf(stored) ELSE <<>>
      kept == SelectSeq(entries, LAMBDA e : ~IsFalsy(e.val))
  IN [id \in {kept[i].key : i \in 1..Len(kept)} |->
        MigratedTask(id, Field(JObject(kept), id))]

\* persistBackup (lines 47-58).
persistBackup(storage, text) ==
  IF storage.backup = NoItem THEN [storage EXCEPT !.backup = text]
  ELSE storage

\* loadState of storage.ts (lines 60-101): the tasks returned, whether an
\* error is returned with them, and localStorage as the call leaves it.
storage_loadState(storage) ==
  LET parsed == storage.main
      failed == [tasks |-> EmptyMap, error |-> TRUE, storage |-> storage]
      version == Field(parsed, Str("version"))
  IN IF parsed = NoItem
     THEN [tasks |-> EmptyMap, error |-> FALSE, storage |-> storage]
     ELSE IF parsed = SyntaxError THEN failed
     ELSE IF parsed.kind \notin {"object", "array"} THEN failed
     ELSE IF HasKey(parsed, Str("version"))
     THEN IF version.kind = "number" /\ version.val = 2
          THEN [tasks |-> withDoneFlag(Field(parsed, Str("tasks"))),
                error |-> FALSE, storage |-> storage]
          ELSE IF version.kind = "number" /\ version.val = 1
          THEN [tasks |-> withDoneFlag(Field(parsed, Str("tasks"))),
                error |-> FALSE, storage |-> persistBackup(storage, parsed)]
          ELSE failed
     ELSE IF /\ HasKey(parsed, Str("tasks"))
             /\ Field(parsed, Str("tasks")).kind
                  \in {"object", "array", "null"}
     THEN [tasks |-> withDoneFlag(Field(parsed, Str("tasks"))),
           error |-> FALSE, storage |-> persistBackup(storage, parsed)]
     ELSE [tasks |-> withDoneFlag(parsed), error |-> FALSE,
           storage |-> persistBackup(storage, parsed)]

\* JSON.stringify of one task, read back by JSON.parse: a field that is
\* undefined is left out.
StoredTask(task) ==
  JObject(
    <<Entry(Str("id"), JString(task.id))>>
    \o (IF IsText(task.title)
        THEN <<Entry(Str("title"), JString(task.title))>> ELSE <<>>)
    \o (IF task.due = undefined THEN <<>>
        ELSE <<Entry(Str("due"),
                     IF IsText(task.due) THEN JString(task.due) ELSE JNull)>>)
    \o (IF task.quadrant # "undefined"
        THEN <<Entry(Str("quadrant"), JString(Str(task.quadrant)))>>
        ELSE <<>>)
    \o <<Entry(Str("done"), JBoolean(task.done))>>
    \o (IF IsText(task.createdAt)
        THEN <<Entry(Str("createdAt"), JString(task.createdAt))>> ELSE <<>>)
    \o (IF task.completedAt = undefined THEN <<>>
        ELSE <<Entry(Str("completedAt"),
                     IF IsText(task.completedAt) THEN JString(task.completedAt)
                     ELSE JNull)>>)
    \o <<Entry(Str("timeSpentSeconds"), JNumber(task.timeSpentSeconds)),
         Entry(Str("contemplationTag"),
               IF task.contemplationTag = "null" THEN JNull
               ELSE JString(Str(task.contemplationTag))),
         Entry(Str("capturedViaContemplation"),
               JBoolean(task.capturedViaContemplation))>>)

\* The text saveState writes (lines 110-111).
PersistedState(map) ==
  LET values == ValuesOf(map)
  IN JObject(<<Entry(Str("version"), JNumber(CURRENT_VERSION)),
               Entry(Str("tasks"),
                     JObject([i \in 1..Len(values) |->
                                Entry(values[i].id, StoredTask(values[i]))]))>>)

\* saveState (lines 105-112), called by the timeout of that handle.
saveState(storage, map, handle) ==
  [storage EXCEPT !.main = PersistedState(map), !.writer = handle]

\* A scheduleSave that clears no timeout before it sets the next.
ClearedTimeouts_Kept(pending, handle) ==
  pending

\* window.clearTimeout(persistHandle) of lines 119-121.
ClearedTimeouts(pending, handle) ==
  {t \in pending : t.handle # handle}

\* scheduleSave (lines 114-126): the timeouts pending after the call; the
\* handle setTimeout returns is the one after the last.
scheduleSave(pending, handle, map) ==
  ClearedTimeouts(pending, handle)
    \cup {[handle |-> handle + 1, tasks |-> map]}

-----------------------------------------------------------------------------
(* useTaskStore.ts: generateTaskId and addTask (lines 109-130, 439-468)    *)

\* The ids crypto.randomUUID() may return.
GeneratedIds == {Str("uuid")}

\* generateTaskId (lines 109-130): the ids it may return, none of them one
\* that existing[candidate] finds.
generateTaskId(existing) == {id \in GeneratedIds : ~Has(existing, id)}

\* 'Новая задача', the title of a task added with a blank title.
DefaultTitle == Str("New task")

\* addTask (lines 439-468) with the id generateTaskId returned.
addTask(prev, task, id, nowIso) ==
  Put(prev, id,
      [id |-> id,
       title |-> IF Trim(task.title) = <<>> THEN DefaultTitle
                 ELSE Trim(task.title),
       due |-> normalizeDue(task.due),
       quadrant |-> IF task.quadrant \in Quadrants THEN task.quadrant
                    ELSE "backlog",
       done |-> FALSE,
       createdAt |-> nowIso,
       completedAt |-> null,
       timeSpentSeconds |-> 0,
       contemplationTag |-> task.contemplationTag,
       capturedViaContemplation |-> task.capturedViaContemplation])

-----------------------------------------------------------------------------
(* useTaskStore (lines 159-166) under React: the render that reads          *)
(* localStorage, the effect that schedules the save, the timeout that       *)
(* writes it, and the calls between two renders.                            *)

MaxCalls == 2

\* A task as a version without done stored it, and one with a title only.
LegacyTask ==
  JObject(<<Entry(Str("id"), JString(PaddedId)),
            Entry(Str("title"), JString(Str("T"))),
            Entry(Str("quadrant"), JString(Str("Q2")))>>)
BareTask == JObject(<<Entry(Str("title"), JString(Str("T")))>>)

\* What the main slot may hold when the page is opened: nothing, a text of
\* version 1, of no version with and without a tasks field, of version 2,
\* of a version this code does not know, and a text that is no JSON.
StoredTexts ==
  {NoItem,
   JObject(<<Entry(Str("version"), JNumber(1)),
             Entry(Str("tasks"), JObject(<<Entry(PaddedId, LegacyTask)>>))>>),
   JObject(<<Entry(Str("version"), JNumber(1)),
             Entry(Str("tasks"), JObject(<<Entry(PaddedId, BareTask)>>))>>),
   JObject(<<Entry(Str("tasks"), JObject(<<Entry(PaddedId, LegacyTask)>>))>>),
   JObject(<<Entry(PaddedId, LegacyTask)>>),
   JObject(<<Entry(Str("version"), JNumber(3)),
             Entry(Str("tasks"), JObject(<<Entry(PaddedId, LegacyTask)>>))>>),
   PersistedState(Put(EmptyMap, PaddedId,
                      NewTask(PaddedId, Str("D"), "Q1", Iso(0)))),
   SyntaxError}

\* The payloads, updates and new tasks of the calls.
HookPayloads ==
  {JObject(<<Entry(PaddedId, JString(Str("D")))>>),
   JObject(<<Entry(Str("Q1"),
                   JObject(<<Entry(PaddedId, JString(<<>>))>>))>>),
   OneDescriptor(PaddedId, JObject(<<Entry(Str("done"), JBoolean(TRUE))>>)),
   OneDescriptor(PaddedId,
                 JObject(<<Entry(Str("done"), JBoolean(FALSE)),
                           Entry(Str("completedAt"), JString(Iso(0)))>>))}

HookUpdates == {[done |-> TRUE], [done |-> FALSE], [title |-> Str("T2")]}

AddedTasks ==
  {[title |-> <<" ">>, due |-> null, quadrant |-> "Q1",
    contemplationTag |-> "null", capturedViaContemplation |-> FALSE],
   [title |-> Str("T"), due |-> Str("D"), quadrant |-> "Q4",
    contemplationTag |-> "energy_high", capturedViaContemplation |-> TRUE]}

InitHook ==
  /\ localStorage \in {[main |-> text, backup |-> NoItem, writer |-> 0] :
                         text \in StoredTexts}
  /\ persistHandle = 0
  /\ timeouts = {}
  /\ tasks = EmptyMap
  /\ renderedTasks = EmptyMap
  /\ mounted = FALSE
  /\ calls = 0
  /\ now = 0
  /\ outcome = NoCall
  /\ pomodoro = loadState
  /\ processedPomodoroSessionsRef = 0
  /\ credited = <<>>
  /\ frame = NoFrame
  /\ focusRun = 0
  /\ completions = 0
  /\ raw = <<>>
  /\ sanitized = null
  /\ intervalRef = 0
  /\ intervals = {}
  /\ renderedRunState = "stopped"

\* What no step of the store hook changes.
hookFrame == <<now, outcome, pomodoro, processedPomodoroSessionsRef, credited,
               frame, focusRun, completions, raw, sanitized, intervalRef,
               intervals, renderedRunState>>

\* The first render (lines 160-161) and its effect (lines 164-166).
Mount ==
  /\ ~mounted
  /\ LET loaded == storage_loadState(localStorage)
     IN /\ localStorage' = loaded.storage
        /\ tasks' = loaded.tasks
        /\ renderedTasks' = loaded.tasks
        /\ timeouts' = scheduleSave(timeouts, persistHandle, loaded.tasks)
  /\ persistHandle' = persistHandle + 1
  /\ mounted' = TRUE
  /\ UNCHANGED <<calls, hookFrame>>

\* A render after setTasks changed tasks: useRef(loadState()) of line 160
\* calls loadState again and drops what it returns, the callbacks close over
\* the new tasks, and the effect of lines 164-166 runs.
Commit ==
  /\ mounted
  /\ tasks # renderedTasks
  /\ localStorage' = storage_loadState(localStorage).storage
  /\ renderedTasks' = tasks
  /\ timeouts' = scheduleSave(timeouts, persistHandle, tasks)
  /\ persistHandle' = persistHandle + 1
  /\ UNCHANGED <<tasks, mounted, calls, hookFrame>>

\* The callback of a timeout of scheduleSave (lines 123-125).
TimeoutFires ==
  \E t \in timeouts :
    /\ localStorage' = saveState(localStorage, t.tasks, t.handle)
    /\ timeouts' = timeouts \ {t}
    /\ UNCHANGED <<tasks, renderedTasks, persistHandle, mounted, calls,
                   hookFrame>>

\* A call leaves everything but tasks to the next render.
CallFrame ==
  /\ mounted
  /\ calls < MaxCalls
  /\ calls' = calls + 1
  /\ UNCHANGED <<localStorage, persistHandle, timeouts, renderedTasks,
                 mounted, hookFrame>>

\* What importTasks of the last render computes (lines 183-217: createBase
\* reads the tasks the callback closed over).
CalledImport(payload, resetQuadrants) ==
  importTasks(renderedTasks, payload, resetQuadrants, Iso(now))

\* importTasks, which ends in setTasks(nextTasks) (lines 375-377).
CallImportTasks ==
  \E payload \in HookPayloads, resetQuadrants \in BOOLEAN :
    /\ tasks' = CalledImport(payload, resetQuadrants).tasks
    /\ CallFrame

\* The calls below end in setTasks((prev) => ...): the update is applied to
\* what the updates queued before it left.  The ids are those of the tasks
\* on the screen.
CallMoveTask ==
  \E taskId \in DOMAIN renderedTasks :
    /\ tasks' = moveTask(tasks, taskId, "Q3")
    /\ CallFrame

CallUpdateTask ==
  \E taskId \in DOMAIN renderedTasks, updates \in HookUpdates :
    /\ tasks' = updateTask(tasks, taskId, updates, Iso(now))
    /\ CallFrame

CallAddTask ==
  \E task \in AddedTasks, id \in generateTaskId(tasks) :
    /\ tasks' = addTask(tasks, task, id, Iso(now))
    /\ CallFrame

CallAddTimeToTask ==
  \E taskId \in DOMAIN renderedTasks :
    /\ tasks' = addTimeToTask(tasks, taskId, 1)
    /\ CallFrame

CallDeleteTask ==
  \E taskId \in DOMAIN renderedTasks :
    /\ tasks' = deleteTask(tasks, taskId)
    /\ CallFrame

NextHook ==
  \/ Mount
  \/ Commit
  \/ TimeoutFires
  \/ CallImportTasks
  \/ CallMoveTask
  \/ CallUpdateTask
  \/ CallAddTask
  \/ CallAddTimeToTask
  \/ CallDeleteTask

SpecHook == InitHook /\ [][NextHook]_vars

\* The same steps where a render that is due happens and a timeout that is
\* set fires.
SpecHookFair ==
  /\ SpecHook
  /\ WF_vars(Mount)
  /\ WF_vars(Commit)
  /\ WF_vars(TimeoutFires)

-----------------------------------------------------------------------------
(* Claims about the stored state, checked under SpecHook.                   *)

\* A stored text with a version other than the current one, or with none.
IsOtherVersion(text) ==
  /\ text.kind = "object"
  /\ ~(Field(text, Str("version")).kind = "number"
       /\ Field(text, Str("version")).val = CURRENT_VERSION)

\* A stored text of version 1 or of no version.
IsLegacy(text) ==
  /\ IsOtherVersion(text)
  /\ HasKey(text, Str("version")) => Field(text, Str("version")).val = 1

\* The stored tasks of a legacy text: its tasks field, or the text itself.
LegacyTasks(text) ==
  IF HasKey(text, Str("tasks")) THEN Field(text, Str("tasks")) ELSE text

\* C26: a step that overwrites a main slot holding a text of another
\* version than the current one leaves that text in the backup slot; and
\* the first render of a legacy text gives one task for each stored task,
\* with its stored title, due, quadrant and done, done = false and
\* quadrant = backlog where the stored task has none.
C26_OtherVersionBackedUp ==
  [][/\ (IsOtherVersion(localStorage.main)
         /\ localStorage'.main # localStorage.main)
          => localStorage'.backup = localStorage.main
     /\ (~mounted /\ mounted' /\ IsLegacy(localStorage.main))
          => LET stored == LegacyTasks(localStorage.main)
             IN /\ DOMAIN tasks' = KeysOf(stored)
                /\ \A id \in KeysOf(stored) :
                     LET task == Field(stored, id)
                     IN /\ tasks'[id].id = id
                        /\ HasKey(task, Str("title"))
                             => tasks'[id].title
                                  = Field(task, Str("title")).val
                        /\ tasks'[id].due = null
                        /\ tasks'[id].quadrant
                             = IF HasKey(task, Str("quadrant"))
                               THEN Field(task, Str("quadrant")).val[1]
                               ELSE "backlog"
                        /\ tasks'[id].done = FALSE]_vars

\* C27: importTasks merges the payload into the collection as the calls
\* before it left it, also when no render has happened since: what it
\* stores is what the import of the payload into that collection gives.
C27_ImportSeesLatestEdits ==
  mounted =>
    \A payload \in HookPayloads, resetQuadrants \in BOOLEAN :
      CalledImport(payload, resetQuadrants).tasks
        = importTasks(tasks, payload, resetQuadrants, Iso(now)).tasks

-----------------------------------------------------------------------------
(* usePomodoroTimer under React: the interval of scheduleTick (lines        *)
(* 452-534), the effect that sets and clears it (lines 536-544), and the    *)
(* calls and ticks between two renders.                                     *)

\* clearIntervalRef (lines 452-457): the intervals left.
clearIntervalRef(ref, live) == IF ref # 0 THEN live \ {ref} ELSE live

\* The handle window.setInterval returns: one that no live interval has.
NewInterval(live) == IF 1 \notin live THEN 1 ELSE 2

\* The updater of the interval callback calls clearIntervalRef (lines
\* 507-509): the interval ended and the next one is not to run by itself.
TickClearsInterval(prev) ==
  /\ ReachesZero(prev)
  /\ ~(prev.config.autoTransition /\ NextMode(prev) # "idle")

\* What no step of the timer hook changes.
scheduleFrame == <<tasks, processedPomodoroSessionsRef, now, outcome,
                   credited, frame, focusRun, raw, sanitized, localStorage,
                   persistHandle, timeouts, renderedTasks, mounted, calls>>

\* The callback of a live interval (lines 461-533).
IntervalFires ==
  /\ intervals # {}
  /\ CompletesFocus(pomodoro) => completions < MaxCompletions
  /\ pomodoro' = Tick(pomodoro, Iso(completions + 1))
  /\ completions' = IF CompletesFocus(pomodoro) THEN completions + 1
                    ELSE completions
  /\ intervals' = IF TickClearsInterval(pomodoro)
                  THEN clearIntervalRef(intervalRef, intervals)
                  ELSE intervals
  /\ intervalRef' = IF TickClearsInterval(pomodoro) THEN 0 ELSE intervalRef
  /\ UNCHANGED <<renderedRunState, scheduleFrame>>

\* The calls queue an update of the state and touch no interval.
TimerCallFrame ==
  UNCHANGED <<completions, intervalRef, intervals, renderedRunState,
              scheduleFrame>>

TimerStart ==
  \E taskId \in TimerTasks :
    /\ pomodoro' = start(pomodoro, taskId)
    /\ TimerCallFrame

TimerPause ==
  /\ pomodoro' = pause(pomodoro)
  /\ TimerCallFrame

TimerResume ==
  /\ pomodoro' = resume(pomodoro)
  /\ TimerCallFrame

TimerReset ==
  /\ pomodoro' = reset(pomodoro)
  /\ TimerCallFrame

TimerSkip ==
  /\ pomodoro' = skip(pomodoro)
  /\ TimerCallFrame

TimerUpdateConfig ==
  \E value \in BOOLEAN :
    /\ pomodoro' = updateConfig(pomodoro, [autoTransition |-> value])
    /\ TimerCallFrame

\* A render with another runState than the last: the cleanup of the effect
\* of lines 536-544 runs, and then the effect.
TimerCommit ==
  /\ pomodoro.runState # renderedRunState
  /\ renderedRunState' = pomodoro.runState
  /\ LET cleared == clearIntervalRef(intervalRef, intervals)
     IN IF pomodoro.runState = "running"
        THEN /\ intervalRef' = NewInterval(cleared)
             /\ intervals' = cleared \cup {NewInterval(cleared)}
        ELSE /\ intervalRef' = 0
             /\ intervals' = cleared
  /\ UNCHANGED <<pomodoro, completions, scheduleFrame>>

NextSchedule ==
  \/ IntervalFires
  \/ TimerStart
  \/ TimerPause
  \/ TimerResume
  \/ TimerReset
  \/ TimerSkip
  \/ TimerUpdateConfig
  \/ TimerCommit

SpecSchedule == InitTimer /\ [][NextSchedule]_vars

\* C28: when the last render has the runState of the state, an interval is
\* live exactly when runState is running, and never more than one.
C28_IntervalIffRunning ==
  renderedRunState = pomodoro.runState
    => /\ Cardinality(intervals) <= 1
       /\ intervals # {} <=> pomodoro.runState = "running"

-----------------------------------------------------------------------------
(* Claim about the debounced save, checked under SpecHookFair.             *)

\* C29: at most one save is pending, and it carries the collection of the
\* last render, which is the collection the last change left; a pending
\* save is newer than the one that wrote the stored text; and in the end
\* the stored text is for good the one saveState writes for the collection
\* in memory.
C29_LastWriteWins ==
  /\ [](/\ Cardinality(timeouts) <= 1
        /\ \A t \in timeouts : t.tasks = renderedTasks
        /\ \A t \in timeouts : t.handle > localStorage.writer)
  /\ <>[](/\ tasks = renderedTasks
          /\ localStorage.main = PersistedState(tasks))

\* A save was replaced before it fired: the first one wrote, the second is
\* neither pending nor written, and the third carries the collection.
C29_Witness ==
  /\ persistHandle = 3
  /\ localStorage.writer = 1
  /\ tasks # EmptyMap
  /\ timeouts = {[handle |-> 3, tasks |-> tasks]}

-----------------------------------------------------------------------------
(* Claim about done and completedAt, checked under SpecHookEmpty.          *)

\* The hook opened on a store whose text loads to the empty collection.
InitHookEmpty ==
  /\ InitHook
  /\ storage_loadState(localStorage).tasks = EmptyMap

SpecHookEmpty == InitHookEmpty /\ [][NextHook]_vars

\* completedAt is a timestamp or null, and a timestamp only with done.
CompletedOnlyWhenDone(map) ==
  \A id \in DOMAIN map :
    /\ map[id].completedAt # undefined
    /\ IsText(map[id].completedAt) => map[id].done

\* What one more call of any of the six operations leaves of map.
AfterOneCall(map) ==
  {importTasks(map, payload, resetQuadrants, Iso(now)).tasks :
     payload \in Payloads \cup HookPayloads, resetQuadrants \in BOOLEAN}
  \cup {addTask(map, task, id, Iso(now)) :
          task \in AddedTasks, id \in generateTaskId(map)}
  \cup {updateTask(map, taskId, updates, Iso(now)) :
          taskId \in DOMAIN map, updates \in HookUpdates \cup Updates}
  \cup {moveTask(map, taskId, quadrant) :
          taskId \in DOMAIN map, quadrant \in MoveTargets}
  \cup {addTimeToTask(map, taskId, 1) : taskId \in DOMAIN map}
  \cup {deleteTask(map, taskId) : taskId \in DOMAIN map}

\* What updateTask does to completedAt of a task of map.
UpdateTaskCompletedAt(map) ==
  \A taskId \in DOMAIN map, updates \in HookUpdates \cup Updates :
    LET before == map[taskId]
        after == updateTask(map, taskId, updates, Iso(now))[taskId]
    IN IF "done" \notin DOMAIN updates
       THEN after.completedAt = before.completedAt
       ELSE /\ (~before.done /\ updates.done)
                 => after.completedAt = Iso(now)
            /\ (before.done /\ ~updates.done) => after.completedAt = null

\* C30: in every collection reached from the empty one by importTasks,
\* addTask, updateTask, moveTask, addTimeToTask and deleteTask, and in what
\* one more such call leaves of it, completedAt is non-null only when done
\* is true; updateTask sets completedAt to the time of the call when done
\* goes from false to true, clears it when done goes from true to false, and
\* leaves it as it was when the update does not mention done.
C30_CompletedAtFollowsDone ==
  \A map \in {tasks, renderedTasks} :
    /\ CompletedOnlyWhenDone(map)
    /\ \A next \in AfterOneCall(map) : CompletedOnlyWhenDone(next)
    /\ UpdateTaskCompletedAt(map)

\* updateTask has completed a task: no import of HookPayloads and no
\* addTask leaves a timestamp in completedAt.
C30_Witness ==
  /\ calls = MaxCalls
  /\ \E id \in DOMAIN tasks :
       /\ tasks[id].done
       /\ tasks[id].completedAt = Iso(now)

-----------------------------------------------------------------------------
(* Claims about the fields of a record over the calls of the hook, checked *)
(* under SpecHook: no update of HookUpdates and no descriptor of           *)
(* HookPayloads supplies timeSpentSeconds.                                 *)

\* C31: over the calls of the hook, none of which supplies
\* timeSpentSeconds, timeSpentSeconds of a task never decreases from one
\* collection to the next, and it is never negative.
C31_TimeSpentNeverDecreases ==
  /\ [](\A id \in DOMAIN tasks : tasks[id].timeSpentSeconds >= 0)
  /\ [][\A id \in DOMAIN tasks \cap DOMAIN tasks' :
          tasks'[id].timeSpentSeconds >= tasks[id].timeSpentSeconds]_vars

-----------------------------------------------------------------------------
(* Claims about the fields of a record in every collection, checked under  *)
(* SpecStore.                                                              *)

\* A due that is null or a text with a first and a last character that are
\* no white space.
IsNormalizedDue(due) ==
  \/ due = null
  \/ /\ IsText(due)
     /\ due # <<>>
     /\ Trim(due) = due

\* The dues a form or a caller may pass.
GivenDues == DueTexts \cup {null}

\* C32: in every collection, and in what addTask or updateTask with any
\* due, empty and blank ones included, leaves of it, the due of every
\* record is null or a non-empty text without surrounding white space.
C32_DueNeverBlank ==
  /\ \A id \in DOMAIN tasks : IsNormalizedDue(tasks[id].due)
  /\ \A task \in AddedTasks, due \in GivenDues, id \in generateTaskId(tasks) :
       LET next == addTask(tasks, [task EXCEPT !.due = due], id, Iso(now))
       IN /\ IsNormalizedDue(next[id].due)
          /\ (due \in {null, <<>>, <<" ">>}) => next[id].due = null
  /\ \A taskId \in DOMAIN tasks, due \in GivenDues :
       LET next == updateTask(tasks, taskId, [due |-> due], Iso(now))
       IN /\ IsNormalizedDue(next[taskId].due)
          /\ (due \in {null, <<>>, <<" ">>}) => next[taskId].due = null

\* An import has left one record with a due and one without: the payloads
\* of two keys give the empty due to one of them.
C32_Witness ==
  /\ outcome.op = "importTasks"
  /\ outcome.error = "none"
  /\ DOMAIN tasks = Ids
  /\ tasks[PaddedId].due = null
  /\ tasks[InheritedId].due = Str("D")

-----------------------------------------------------------------------------
(* Claims about the timer in every state, checked under Spec.              *)

\* C33: history and completedSessions never hold more than
\* SESSION_LOG_LIMIT entries, and the tick that completes a focus interval
\* with the logs at the limit leaves each log without its oldest entry and
\* with the new entry last, the entries between in the order they had.
C33_LogsCapped ==
  LET stats == pomodoro.stats
      nowIso == Iso(completions + 1)
  IN /\ Len(stats.history) <= SESSION_LOG_LIMIT
     /\ Len(stats.completedSessions) <= SESSION_LOG_LIMIT
     /\ (CompletesFocus(pomodoro) /\ Len(stats.history) = SESSION_LOG_LIMIT)
          => AfterTick.stats.history = Append(Tail(stats.history), nowIso)
     /\ (/\ CompletesFocus(pomodoro)
         /\ Len(stats.completedSessions) = SESSION_LOG_LIMIT)
          => AfterTick.stats.completedSessions =
               Append(Tail(stats.completedSessions),
                      [taskId |-> pomodoro.activeTaskId,
                       durationSeconds |-> pomodoro.sessionSeconds,
                       completedAt |-> nowIso])

\* One focus interval more than the logs hold has completed: the first
\* entry is gone and the logs hold the later ones in order.
C33_Witness ==
  /\ completions = SESSION_LOG_LIMIT + 1
  /\ Len(pomodoro.stats.history) = SESSION_LOG_LIMIT
  /\ Len(pomodoro.stats.completedSessions) = SESSION_LOG_LIMIT
  /\ pomodoro.stats.history[1] = Iso(2)
  /\ LastOf(pomodoro.stats.history) = Iso(completions)
  /\ pomodoro.stats.completedSessions[1].completedAt = Iso(2)
  /\ LastOf(pomodoro.stats.completedSessions).completedAt = Iso(completions)

-----------------------------------------------------------------------------
(* Claims about one import into the collection, checked under SpecStore.   *)

\* Quadrant-grouped payloads of two lists of one title each; the two titles
\* may be the same one.
ListedPayloads ==
  {JObject(<<Entry(Str("Q1"), JObject(<<Entry(first, JString(Str("D")))>>)),
             Entry(Str("Q2"), JObject(<<Entry(second, JString(due))>>))>>) :
     first \in Ids, second \in Ids, due \in {<<>>, <<" ", "D">>}}

\* The record of id after the import has the quadrant and the due of the
\* listing, and what else a record of id had before.
PlacedAsListed(prev, next, id, quadrant, due) ==
  /\ id \in DOMAIN next
  /\ next[id].quadrant = quadrant
  /\ next[id].due = normalizeDue(due)
  /\ id \in DOMAIN prev =>
       /\ next[id].title = prev[id].title
       /\ next[id].done = prev[id].done
       /\ next[id].createdAt = prev[id].createdAt
       /\ next[id].completedAt = prev[id].completedAt
       /\ next[id].timeSpentSeconds = prev[id].timeSpentSeconds
       /\ next[id].contemplationTag = prev[id].contemplationTag
       /\ next[id].capturedViaContemplation =
            prev[id].capturedViaContemplation

\* C35: after a quadrant-grouped import every title listed under a
\* quadrant, new or not, has that quadrant and the due of the payload, and
\* the record of an existing title keeps its title, done, createdAt,
\* completedAt, timeSpentSeconds and tags.
C35_GroupedImportPlaces ==
  \A payload \in ListedPayloads \cup GroupedPayloads,
     resetQuadrants \in BOOLEAN :
    LET result == importTasks(tasks, payload, resetQuadrants, Iso(now))
    IN result.error = "none" =>
         \A i \in 1..Len(payload.val) :
           LET list == payload.val[i].val.val
           IN \A j \in 1..Len(list) :
                PlacedAsListed(tasks, result.tasks, list[j].key,
                               payload.val[i].key[1], list[j].val.val)

\* The quadrants a payload gives id: the ones it is listed under in a
\* quadrant-grouped payload, the one its descriptor carries in an export
\* payload, and backlog when there is none.
GivenQuadrants(payload, id) ==
  LET shape == RuleShape(payload)
      listed == IF shape = "grouped"
                THEN {payload.val[i].key[1] :
                        i \in {k \in 1..Len(payload.val) :
                                 id \in KeysOf(payload.val[k].val)}}
                ELSE {}
      carried == IF shape = "export"
                 THEN LET quadrant ==
                            Field(Field(Field(payload, Str("tasks")), id),
                                  Str("quadrant"))
                      IN IF isQuadrant(quadrant) THEN {quadrant.val[1]}
                         ELSE {}
                 ELSE {}
  IN IF listed \cup carried = {} THEN {"backlog"} ELSE listed \cup carried

\* The payloads whose descriptors carry at most a due and a quadrant.
DefaultingPayloads ==
  FlatPayloads \cup GroupedPayloads \cup ListedPayloads
  \cup {OneDescriptor(id, descriptor) :
          id \in Ids, descriptor \in AppliedDescriptors}

\* C36: an import creates, for every identity of the payload that the
\* collection did not hold, a record with id and title the key of the
\* payload, done false, completedAt null, timeSpentSeconds 0 and the
\* quadrant backlog, or the one the payload lists it under or its
\* descriptor carries.
C36_NewRecordDefaults ==
  \A payload \in DefaultingPayloads, resetQuadrants \in BOOLEAN :
    LET result == importTasks(tasks, payload, resetQuadrants, Iso(now))
    IN result.error = "none" =>
         \A id \in NamedIds(payload) \ DOMAIN tasks :
           /\ id \in DOMAIN result.tasks
           /\ result.tasks[id].id = id
           /\ result.tasks[id].title = id
           /\ result.tasks[id].done = FALSE
           /\ result.tasks[id].completedAt = null
           /\ result.tasks[id].timeSpentSeconds = 0
           /\ result.tasks[id].quadrant \in GivenQuadrants(payload, id)

\* Export payloads of one descriptor that carries a createdAt.
StampedPayloads ==
  {OneDescriptor(id, JObject(<<Entry(Str("createdAt"), JString(stamp))>>)) :
     id \in Ids, stamp \in {<<" ">>} \cup {Iso(n) : n \in 0..MaxClock}}

\* What one call of moveTask, updateTask or addTimeToTask, or one import
\* of one of payloads, leaves of the collection.
AfterOneEdit(payloads) ==
  {importTasks(tasks, payload, resetQuadrants, Iso(now)).tasks :
     payload \in payloads, resetQuadrants \in BOOLEAN}
  \cup {moveTask(tasks, taskId, quadrant) :
          taskId \in DOMAIN tasks, quadrant \in MoveTargets}
  \cup {updateTask(tasks, taskId, updates, Iso(now)) :
          taskId \in DOMAIN tasks, updates \in Updates \cup HookUpdates}
  \cup {addTimeToTask(tasks, taskId, 1) : taskId \in DOMAIN tasks}

\* C37: moveTask, updateTask, addTimeToTask and an import of any shape,
\* with resetQuadrants or without, leave every record of the collection
\* with the createdAt it had.
C37_CreatedAtNeverChanges ==
  \A next \in AfterOneEdit(Payloads \cup ListedPayloads \cup StampedPayloads) :
    \A id \in DOMAIN tasks \cap DOMAIN next :
      next[id].createdAt = tasks[id].createdAt

\* Export payloads of one descriptor that carries a title: an empty one,
\* a blank one and one with white space around a letter.
TitleTexts == {<<>>, <<" ">>, <<" ", "T">>}

TitledPayloads ==
  {OneDescriptor(id, JObject(<<Entry(Str("title"), JString(title))>>)) :
     id \in Ids, title \in TitleTexts}

\* The flat payload of the empty key.
EmptyKeyPayload == JObject(<<Entry(<<>>, JString(Str("D")))>>)

HasFilledTitles(map) ==
  \A id \in DOMAIN map : IsText(map[id].title) /\ map[id].title # <<>>

\* C38: in every collection, and in what one more import of any shape and
\* key, addTask or updateTask with any title leaves of it, the title of
\* every record is a non-empty text; and an export descriptor changes the
\* title of an existing record only when it carries a title that is not
\* blank.
C38_TitleNeverEmpty ==
  /\ HasFilledTitles(tasks)
  /\ \A payload \in Payloads \cup ListedPayloads \cup TitledPayloads
                      \cup {EmptyKeyPayload},
        resetQuadrants \in BOOLEAN :
       HasFilledTitles(
         importTasks(tasks, payload, resetQuadrants, Iso(now)).tasks)
  /\ \A id \in DOMAIN tasks, title \in TitleTexts :
       LET next == importTasks(
                     tasks,
                     OneDescriptor(id, JObject(<<Entry(Str("title"),
                                                       JString(title))>>)),
                     FALSE, Iso(now)).tasks
       IN next[id].title = IF Trim(title) = <<>> THEN tasks[id].title
                           ELSE Trim(title)
  /\ \A task \in AddedTasks, title \in TitleTexts,
        id \in generateTaskId(tasks) :
       HasFilledTitles(
         addTask(tasks, [task EXCEPT !.title = title], id, Iso(now)))
  /\ \A taskId \in DOMAIN tasks, title \in TitleTexts :
       HasFilledTitles(
         updateTask(tasks, taskId, [title |-> title], Iso(now)))

\* C39: an import that succeeds, of any shape and with resetQuadrants or
\* without, leaves every id of the collection in it, every key with a
\* record of that id, and as many records as before plus the number it
\* returns as added.
C39_ImportOnlyAdds ==
  \A payload \in Payloads \cup ListedPayloads, resetQuadrants \in BOOLEAN :
    LET result == importTasks(tasks, payload, resetQuadrants, Iso(now))
    IN result.error = "none" =>
         /\ DOMAIN tasks \subseteq DOMAIN result.tasks
         /\ \A k \in DOMAIN result.tasks : result.tasks[k].id = k
         /\ Cardinality(DOMAIN result.tasks) =
              Cardinality(DOMAIN tasks) + result.added

=============================================================================
